---- MODULE Spec2Model ----
(***************************************************************************)
(* Model of the Miscrits bot battle engine: the rating resolver            *)
(* (battle.py), the run-button state detector (battle_state.py), the main  *)
(* polling loop (capture_loop.py) and the encounter controller             *)
(* (battle.py).                                                            *)
(***************************************************************************)
EXTENDS Integers, Sequences, FiniteSets, TLC

VARIABLES
    \* ---- rating resolver calls (battle.py, estimate_ip_rating_from_capture_rate)
    rs_call,      \* which function was called last: "none", "estimate", "info"
    rs_P,         \* capture_rate of the last call, as an optional integer
    rs_allowed,   \* possible_rarities argument of the last call
    rs_out,       \* (ip_rating, rarity) returned by the last estimate call
    rs_info,      \* (capture_rate, ip_rating, rarity) of the last get_miscrit_info
    \* ---- battle_state.BattleDetector
    has_template,            \* run_button_template is not None
    current_state,           \* BattleDetector.current_state
    consecutive_detections,  \* BattleDetector.consecutive_detections
    state_entered_time,      \* BattleDetector.state_entered_time
    now,                     \* time.time()
    det_log,                 \* history: the last detect_state calls, oldest first
    \* ---- capture_loop.Bot
    lp_cfg,                  \* require_ocr, ocr_reader loaded, cooldown_seconds
    running,                 \* Bot.running
    lp_pc,                   \* "init" before start(), "loop" at the while test of _loop,
                             \* "iter" inside an iteration, "stopped" after the loop
    current_mode,            \* _loop's current_mode
    last_spot_check_time,    \* _loop's last_spot_check_time
    last_battle_check_time,  \* Bot.last_battle_check_time
    lp_last,                 \* history: what the last loop iteration saw and did
    lp_readings,             \* history: the last two readiness readings made
    lp_faults,               \* history: how many iterations have raised
    \* ---- battle.BattleManager, battle.Battle, battle.SkillManager
    enc_cfg,                 \* the configuration the encounter reads
    io_raises,               \* whether the input controller can raise
    enc_pc,                  \* where the running thread's controller is
    in_battle,               \* BattleManager.in_battle
    battle_count,            \* BattleManager.battle_count
    stats,                   \* Battle.stats
    current_page,            \* SkillManager.current_page
    visible_skills,          \* SkillManager.visible_skills
    enc,                     \* the locals of the encounter being handled
    enc_acts,                \* history: the actions issued in this encounter
    bm_last,                 \* history: the running thread's last is_in_battle call
    since_return,            \* history: time since handle_encounter last returned
    wt,                      \* the wait_for_turn / wait_for_battle_end in progress
    sk_call,                 \* the navigate_to_skill / use_skill call in progress
    bm_other,                \* the locals of the second thread, while suspended
    \* ---- battle.HPMonitor
    hp_frame,                \* the grab of the enemy_hp_bar region
    hp_called,               \* whether get_hp_percent has been called on it
    hp_out,                  \* what get_hp_percent returned
    \* ---- battle.CaptureRateDetector
    cr_in,                   \* the grab of the capture_rate region, as it is read
    cr_called,               \* whether detect_capture_rate has been called on it
    cr_out,                  \* what detect_capture_rate returned
    \* ---- calls of Battle.is_eligible and utils.ip_rating_meets_minimum
    pol_call,                \* the call made: "none", "is_eligible", "meets"
    pol_rule,                \* the per-rarity rule of the configuration
    pol_rarity,              \* the rarity argument
    pol_rating,              \* the rating argument (found)
    pol_out,                 \* what the call returned
    \* ---- calls of battle.SkillManager (on current_page, visible_skills)
    sk_last,                 \* history: the last call and the clicks it issued
    sk_prev                  \* history: the call before it

resolverVars == <<rs_call, rs_P, rs_allowed, rs_out, rs_info>>
detectorVars == <<has_template, current_state, consecutive_detections,
                  state_entered_time, now, det_log>>
loopVars == <<lp_cfg, running, lp_pc, current_mode, last_spot_check_time,
              last_battle_check_time, lp_last, lp_readings, lp_faults>>
encVars == <<enc_cfg, io_raises, enc_pc, in_battle, battle_count, stats, current_page,
             visible_skills, enc, enc_acts, bm_last, since_return, wt, sk_call>>
hpVars == <<hp_frame, hp_called, hp_out>>
crVars == <<cr_in, cr_called, cr_out>>
polVars == <<pol_call, pol_rule, pol_rarity, pol_rating, pol_out>>
skVars == <<sk_last, sk_prev>>
callerVars == <<bm_other>>
vars == <<resolverVars, detectorVars, loopVars, encVars, hpVars, crVars, polVars,
          skVars, callerVars>>

\* what each component leaves alone
notResolver == <<detectorVars, loopVars, encVars, hpVars, crVars, polVars, skVars,
    callerVars>>
notDetector == <<resolverVars, loopVars, encVars, hpVars, crVars, polVars, skVars,
    callerVars>>
notLoop == <<resolverVars, encVars, hpVars, crVars, polVars, skVars,
    callerVars>>
notEncounter == <<resolverVars, detectorVars, loopVars, hpVars, crVars, polVars,
                  skVars,
    callerVars>>
notHp == <<resolverVars, detectorVars, loopVars, encVars, crVars, polVars,
          skVars,
    callerVars>>
notPolicy == <<resolverVars, detectorVars, loopVars, encVars, hpVars, crVars,
              skVars,
    callerVars>>
notRate == <<resolverVars, detectorVars, loopVars, encVars, hpVars, polVars,
            skVars,
    callerVars>>
notSkill == <<resolverVars, detectorVars, loopVars, hpVars, crVars, polVars,
              enc_cfg, io_raises, enc_pc, in_battle, battle_count, stats,
              enc, enc_acts, bm_last, since_return, wt,
              callerVars>>

\* Python's None where a string is expected
None == "None"

\* An optional number: NoNumber is None, Some(x) is the number x
NoNumber == <<>>
Some(x) == <<x>>
Val(o) == o[1]

\* possible_rarities = None (the argument left out)
DefaultRarities == {None}

Abs(x) == IF x < 0 THEN 0 - x ELSE x

\* ======================================================================
\* battle.py : constants and data tables
\* ======================================================================

RARITIES == {"Common", "Rare", "Epic", "Exotic", "Legendary"}

\* Insertion order of the inner dicts of CAPTURE_RATE_TABLE_100HP.
RARITY_ORDER == <<"Common", "Rare", "Epic", "Exotic", "Legendary">>

\* Insertion order of the keys of CAPTURE_RATE_TABLE_100HP (F- first, S+ last).
TABLE_ORDER == <<"F-", "F", "F+", "D", "D+", "C", "C+", "B", "B+", "A", "A+", "S", "S+">>

IP_RATINGS_ORDER == <<"S+", "S", "A+", "A", "B+", "B", "C+", "C", "D+", "D", "F+", "F", "F-">>

RATINGS == {IP_RATINGS_ORDER[i] : i \in 1..Len(IP_RATINGS_ORDER)}

TableRow(c, r, e, x, l) ==
    [Common |-> c, Rare |-> r, Epic |-> e, Exotic |-> x, Legendary |-> l]

CAPTURE_RATE_TABLE_100HP ==
    ("F-" :> TableRow(45, 35, 25, 15, 100)) @@
    ("F"  :> TableRow(43, 33, 23, 13, 100)) @@
    ("F+" :> TableRow(42, 32, 22, 12, 100)) @@
    ("D"  :> TableRow(40, 30, 20, 10, 100)) @@
    ("D+" :> TableRow(39, 29, 19,  9, 100)) @@
    ("C"  :> TableRow(37, 27, 17,  7, 100)) @@
    ("C+" :> TableRow(36, 26, 16,  6,  95)) @@
    ("B"  :> TableRow(34, 24, 14,  4,  93)) @@
    ("B+" :> TableRow(33, 23, 13,  3,  92)) @@
    ("A"  :> TableRow(31, 21, 11,  1,  90)) @@
    ("A+" :> TableRow(30, 20, 10,  1,  89)) @@
    ("S"  :> TableRow(28, 18,  8,  1,  87)) @@
    ("S+" :> TableRow(27, 17,  7,  1,  86))

\* best_diff = 999 before the scan
BEST_DIFF_INIT == 999

\* "Accept match if within 3% tolerance"
TOLERANCE == 3

\* The result (None, None)
NoMatch == <<None, None>>

\* ======================================================================
\* battle.py : estimate_ip_rating_from_capture_rate
\* ======================================================================

\* possible_rarities = None selects all five rarities
PossibleRarities(possible_rarities) ==
    IF possible_rarities = DefaultRarities THEN RARITIES ELSE possible_rarities

\* Mutant: a cell at the same distance replaces the best match (diff <= best_diff).
ScanCell_last_wins(best, rating, j, capture_rate, possible) ==
    LET rarity == RARITY_ORDER[j]
        diff   == Abs(CAPTURE_RATE_TABLE_100HP[rating][rarity] - capture_rate)
    IN  IF rarity \notin possible THEN best
        ELSE IF diff <= best.diff
             THEN [diff |-> diff, match |-> <<rating, rarity>>]
             ELSE best

\* The body of the inner loop for one (rating, rarity) cell: the cell replaces
\* (best_diff, best_match) when it is allowed and strictly closer.
ScanCell(best, rating, j, capture_rate, possible) ==
    LET rarity == RARITY_ORDER[j]
        diff   == Abs(CAPTURE_RATE_TABLE_100HP[rating][rarity] - capture_rate)
    IN  IF rarity \notin possible THEN best
        ELSE IF diff < best.diff
             THEN [diff |-> diff, match |-> <<rating, rarity>>]
             ELSE best

\* The inner loop from rarity j on, for one rating, in the order of
\* RARITY_ORDER.  (The set binding makes nb the value of the loop variable.)
RECURSIVE ScanRow(_, _, _, _, _)
ScanRow(best, rating, j, capture_rate, possible) ==
    IF j > Len(RARITY_ORDER) THEN best
    ELSE CHOOSE r \in { ScanRow(nb, rating, j + 1, capture_rate, possible) :
                          nb \in {ScanCell(best, rating, j, capture_rate, possible)} } : TRUE

\* The outer loop from rating i on, in the order of TABLE_ORDER.
RECURSIVE ScanFrom(_, _, _, _)
ScanFrom(best, i, capture_rate, possible) ==
    IF i > Len(TABLE_ORDER) THEN best
    ELSE CHOOSE r \in { ScanFrom(nb, i + 1, capture_rate, possible) :
                          nb \in {ScanRow(best, TABLE_ORDER[i], 1, capture_rate, possible)} } : TRUE

ScanTable(capture_rate, possible) ==
    ScanFrom([diff |-> BEST_DIFF_INIT, match |-> NoMatch], 1,
             capture_rate, possible)

\* Mutant: the rarity filter of the scan is dropped.
estimate_ignoring_allowed(capture_rate, possible_rarities) ==
    LET best == ScanTable(capture_rate, RARITIES)
    IN  IF best.match # NoMatch /\ best.diff <= TOLERANCE
        THEN best.match ELSE NoMatch

\* Mutant: the tolerance test is dropped, the best match is always returned.
estimate_without_tolerance(capture_rate, possible_rarities) ==
    ScanTable(capture_rate, PossibleRarities(possible_rarities)).match

estimate_ip_rating_from_capture_rate(capture_rate, possible_rarities) ==
    LET best == ScanTable(capture_rate, PossibleRarities(possible_rarities))
    IN  IF best.match # NoMatch /\ best.diff <= TOLERANCE
        THEN best.match ELSE NoMatch

\* CaptureRateDetector.get_miscrit_info, given what detect_capture_rate read
\* (an optional number).
get_miscrit_info(capture_rate) ==
    IF capture_rate = NoNumber THEN <<NoNumber, None, None>>
    ELSE LET m == estimate_ip_rating_from_capture_rate(Val(capture_rate),
                                                       DefaultRarities)
         IN  IF m[1] # None /\ m[2] # None
             THEN <<capture_rate, m[1], m[2]>>
             ELSE <<capture_rate, None, None>>

\* ----------------------------------------------------------------------
\* Resolver specification: the functions applied to every bounded input
\* ----------------------------------------------------------------------

\* detect_capture_rate returns an integer in 0..100 (or None)
MAX_RATE == 100

\* how far outside 0..100 the direct argument of the resolver is drawn
RateMargin == 5

RateArgs == (0 - RateMargin)..(MAX_RATE + RateMargin)

\* The resolver at rest, before any call (the state of the other specifications)
ResolverIdle ==
    /\ rs_call = "none"
    /\ rs_P = NoNumber
    /\ rs_allowed = DefaultRarities
    /\ rs_out = NoMatch
    /\ rs_info = <<NoNumber, None, None>>

\* The arguments of one call, drawn from the bounded input sets
ResolverInputs ==
    /\ rs_call = "none"
    /\ rs_P \in {NoNumber} \cup {Some(P) : P \in RateArgs}
    /\ rs_allowed \in {DefaultRarities} \cup SUBSET RARITIES
    /\ rs_out = NoMatch
    /\ rs_info = <<NoNumber, None, None>>

\* estimate_ip_rating_from_capture_rate(rs_P, rs_allowed)
CallEstimate ==
    /\ rs_call = "none"
    /\ rs_P # NoNumber
    /\ rs_call' = "estimate"
    /\ rs_out' = estimate_ip_rating_from_capture_rate(Val(rs_P), rs_allowed)
    /\ UNCHANGED <<rs_P, rs_allowed, rs_info>>
    /\ UNCHANGED notResolver

\* get_miscrit_info() when detect_capture_rate reads rs_P (None or 0..100)
CallGetMiscritInfo ==
    /\ rs_call = "none"
    /\ rs_allowed = DefaultRarities
    /\ IF rs_P = NoNumber THEN TRUE ELSE Val(rs_P) \in 0..MAX_RATE
    /\ rs_call' = "info"
    /\ rs_info' = get_miscrit_info(rs_P)
    /\ UNCHANGED <<rs_P, rs_allowed, rs_out>>
    /\ UNCHANGED notResolver

\* ======================================================================
\* battle_state.py : BattleDetector
\* ======================================================================

BotState == {"SEARCHING", "IN_BATTLE", "COOLDOWN"}

\* self.required_consecutive = 2
required_consecutive == 2

\* the longest run of agreeing detections the model follows
MaxConsec == 4

\* the last clock value the model follows
MaxTime == 3

\* Mutant: the branches of "if found" are swapped.
detected_inverted(found) == IF found THEN "SEARCHING" ELSE "IN_BATTLE"

\* "Determine state": the raw detection of one frame
detected_state(found) == IF found THEN "IN_BATTLE" ELSE "SEARCHING"

\* Mutant: a differing detection is committed at once (no hysteresis).
detect_update_no_hysteresis(cur, consec, entered, detected, t) ==
    [state   |-> detected,
     consec  |-> IF detected = cur THEN consec + 1 ELSE 1,
     entered |-> IF detected # cur THEN t ELSE entered]

\* "Update with hysteresis" and "Change state after consecutive detections":
\* the fields of the detector after a frame whose raw detection is `detected`.
detect_update(cur, consec, entered, detected, t) ==
    LET c2     == IF detected = cur THEN consec + 1 ELSE 1
        change == c2 >= required_consecutive /\ detected # cur
    IN  [state   |-> IF change THEN detected ELSE cur,
         consec  |-> c2,
         entered |-> IF change THEN t ELSE entered]

\* The history keeps the last three detect_state calls.
Remember(log, e) ==
    IF Len(log) < 3 THEN Append(log, e) ELSE Append(Tail(log), e)

\* BattleDetector.__init__ (the template file may be missing)
DetectorInit ==
    /\ has_template \in BOOLEAN
    /\ current_state = "SEARCHING"
    /\ consecutive_detections = 0
    /\ state_entered_time = 0
    /\ now = 0
    /\ det_log = <<>>

\* The detector as the other specifications start it
DetectorIdle ==
    /\ has_template = TRUE
    /\ current_state = "SEARCHING"
    /\ consecutive_detections = 0
    /\ state_entered_time = 0
    /\ now = 0
    /\ det_log = <<>>

\* Mutant: without a template the frame counts as "run button not found"
\* and goes through the hysteresis.
DetectStateNoTemplate_as_not_found ==
    /\ ~has_template
    /\ LET detected == detected_state(FALSE)
           u == detect_update(current_state, consecutive_detections,
                              state_entered_time, detected, now)
       IN  /\ u.consec <= MaxConsec
           /\ current_state' = u.state
           /\ consecutive_detections' = u.consec
           /\ state_entered_time' = u.entered
           /\ det_log' = Remember(det_log,
                  [found |-> FALSE, detected |-> detected,
                   before |-> current_state, after |-> u.state,
                   ret |-> u.state, t |-> now, entered |-> u.entered])
    /\ UNCHANGED <<has_template, now>>
    /\ UNCHANGED notDetector

\* detect_state(frame) with no template loaded: the current state is returned
DetectStateNoTemplate ==
    /\ ~has_template
    /\ det_log' = Remember(det_log,
           [found |-> FALSE, detected |-> None, before |-> current_state,
            after |-> current_state, ret |-> current_state,
            t |-> now, entered |-> state_entered_time])
    /\ UNCHANGED <<has_template, current_state, consecutive_detections,
                   state_entered_time, now>>
    /\ UNCHANGED notDetector

\* detect_state(frame); found is what _find_run_button reports for the frame
DetectState ==
    /\ has_template
    /\ \E found \in BOOLEAN :
        LET detected == detected_state(found)
            u == detect_update(current_state, consecutive_detections,
                               state_entered_time, detected, now)
        IN  /\ u.consec <= MaxConsec
            /\ current_state' = u.state
            /\ consecutive_detections' = u.consec
            /\ state_entered_time' = u.entered
            /\ det_log' = Remember(det_log,
                   [found |-> found, detected |-> detected,
                    before |-> current_state, after |-> u.state,
                    ret |-> u.state, t |-> now, entered |-> u.entered])
    /\ UNCHANGED <<has_template, now>>
    /\ UNCHANGED notDetector

\* force_state(state): the new fields of the detector
force_update(cur, consec, entered, state, t) ==
    IF state # cur
    THEN [state |-> state, consec |-> required_consecutive, entered |-> t]
    ELSE [state |-> cur, consec |-> consec, entered |-> entered]

\* force_state(state)
ForceState ==
    /\ \E state \in BotState :
        LET u == force_update(current_state, consecutive_detections,
                              state_entered_time, state, now)
        IN  /\ current_state' = u.state
            /\ consecutive_detections' = u.consec
            /\ state_entered_time' = u.entered
    /\ det_log' = <<>>
    /\ UNCHANGED <<has_template, now>>
    /\ UNCHANGED notDetector

\* time passes between calls
Tick ==
    /\ now < MaxTime
    /\ now' = now + 1
    /\ UNCHANGED <<has_template, current_state, consecutive_detections,
                   state_entered_time, det_log>>
    /\ UNCHANGED notDetector

\* ======================================================================
\* capture_loop.py : Bot._check_battle_ready and Bot._loop
\* Times are in tenths of a second.
\* ======================================================================

\* battle.check_interval_search, default 1.0 s
battle_check_interval_search == 10

\* battle.check_interval_battle, default 2.0 s
battle_check_interval_battle == 20

\* "if now - last_spot_check_time >= 1.0"
spot_check_interval == 10

\* time.sleep(0.1) at the end of every iteration that does not raise
loop_sleep == 1

\* "time.sleep(0.2)" after a loop error
error_sleep == 2

\* search.cooldown_seconds, default 1 s
cooldown_default == 10

\* battle.tiles_min_count, default 3
tiles_min_count == 3

\* the time a stretch of work of an iteration takes when it is not done at
\* once (a screen grab with its detectors)
ShortWork == 4

\* how long after start() the model follows the loop
MaxLoopTime == 20

\* how many raising iterations the model follows in one run of the loop
MaxFaults == 1

\* time.time() when _loop starts: far beyond every interval
LoopStartTime == battle_check_interval_battle

\* The frames of the model: what each detector reports for the frame.
Frames ==
    [spot : BOOLEAN, run : BOOLEAN,
     tiles : {tiles_min_count - 1, tiles_min_count}, coverage_ok : BOOLEAN,
     ocr_items : BOOLEAN, ocr_turn : BOOLEAN]

\* _ocr_has_battle_text: nothing is read without a reader
ocr_has_battle_text(frame, cfg) ==
    IF cfg.ocr_reader
    THEN [items |-> frame.ocr_items, turn |-> frame.ocr_turn]
    ELSE [items |-> FALSE, turn |-> FALSE]

\* Mutant: the tiles alone make the frame ready (run_found or tiles_ok).
check_battle_ready_run_or_tiles(frame, cfg) ==
    LET tiles_ok == frame.tiles >= tiles_min_count /\ frame.coverage_ok
        o        == ocr_has_battle_text(frame, cfg)
        ocr_ok   == IF cfg.require_ocr THEN (o.items \/ o.turn) ELSE TRUE
    IN  (frame.run \/ tiles_ok) /\ ocr_ok

\* _check_battle_ready: ready = run_found and tiles_ok and ocr_ok
check_battle_ready(frame, cfg) ==
    LET tiles_ok == frame.tiles >= tiles_min_count /\ frame.coverage_ok
        o        == ocr_has_battle_text(frame, cfg)
        ocr_ok   == IF cfg.require_ocr THEN (o.items \/ o.turn) ELSE TRUE
    IN  frame.run /\ tiles_ok /\ ocr_ok

\* an iteration that has not happened
NoIteration ==
    [mode_before |-> "SEARCH", mode_after |-> "SEARCH", frame_run |-> FALSE,
     spot_checked |-> FALSE, clicked |-> FALSE, battle_checked |-> FALSE,
     ready |-> FALSE, cooldown |-> FALSE, stopped_during |-> FALSE,
     raised |-> "none"]

\* The configurations of the model: the default one (OCR words not required,
\* the reader initialised, a cooldown of 1 s), every other setting of the two
\* OCR fields with that cooldown, and the default without cooldown
LoopConfigs ==
    [require_ocr : BOOLEAN, ocr_reader : BOOLEAN,
     cooldown_seconds : {cooldown_default}]
    \cup {[require_ocr |-> FALSE, ocr_reader |-> TRUE, cooldown_seconds |-> 0]}

\* Bot.__init__ and the locals of _loop before its first iteration
LoopInit ==
    /\ lp_cfg \in LoopConfigs
    /\ running = FALSE
    /\ lp_pc = "init"
    /\ current_mode = "SEARCH"
    /\ last_spot_check_time = 0
    /\ last_battle_check_time = 0
    /\ lp_last = NoIteration
    /\ lp_readings = <<>>
    /\ lp_faults = 0

\* The bot as the other specifications leave it: not started
LoopIdle ==
    /\ lp_cfg = [require_ocr |-> FALSE, ocr_reader |-> FALSE,
                 cooldown_seconds |-> cooldown_default]
    /\ running = FALSE
    /\ lp_pc = "init"
    /\ current_mode = "SEARCH"
    /\ last_spot_check_time = 0
    /\ last_battle_check_time = 0
    /\ lp_last = NoIteration
    /\ lp_readings = <<>>
    /\ lp_faults = 0

\* Bot.start(): running = True, then _loop() begins in SEARCH mode
Start ==
    /\ lp_pc = "init"
    /\ lp_pc' = "loop"
    /\ running' = TRUE
    /\ current_mode' = "SEARCH"
    /\ last_spot_check_time' = 0
    /\ now' = LoopStartTime
    /\ UNCHANGED <<lp_cfg, last_battle_check_time, lp_last, lp_readings,
                   lp_faults>>
    /\ UNCHANGED <<has_template, current_state, consecutive_detections,
                   state_entered_time, det_log>>
    /\ UNCHANGED notLoop

\* Bot.stop(), called from the UI thread: between two iterations or during one
Stop ==
    /\ lp_pc \in {"loop", "iter"}
    /\ running
    /\ running' = FALSE
    /\ UNCHANGED <<lp_cfg, lp_pc, current_mode, last_spot_check_time,
                   last_battle_check_time, lp_last, lp_readings, lp_faults>>
    /\ UNCHANGED detectorVars
    /\ UNCHANGED notLoop

\* Mutant: the loop condition does not read the stop signal (while True).
loop_test_ignoring_stop(r) == TRUE

\* "while self.running": the condition read at the top of every iteration
loop_test(r) == r

\* "while self.running" is true: an iteration begins
\* (followed for MaxLoopTime after start()).
LoopTest ==
    /\ lp_pc = "loop"
    /\ loop_test(running)
    /\ now <= LoopStartTime + MaxLoopTime
    /\ lp_pc' = "iter"
    /\ UNCHANGED <<lp_cfg, running, current_mode, last_spot_check_time,
                   last_battle_check_time, lp_last, lp_readings, lp_faults>>
    /\ UNCHANGED detectorVars
    /\ UNCHANGED notLoop

\* "while self.running" is false: the loop ends
LoopExit ==
    /\ lp_pc = "loop"
    /\ ~loop_test(running)
    /\ lp_pc' = "stopped"
    /\ UNCHANGED <<lp_cfg, running, current_mode, last_spot_check_time,
                   last_battle_check_time, lp_last, lp_readings, lp_faults>>
    /\ UNCHANGED detectorVars
    /\ UNCHANGED notLoop

\* The readiness reading as the history names it
ReadingName(ready) == IF ready THEN "ready" ELSE "not_ready"

\* The detector after battle_detector.force_state(state) at time t
Forced(state, t) ==
    force_update(current_state, consecutive_detections, state_entered_time,
                 state, t)

\* Mutant: the battle check is not in the else branch of "if spot_found".
search_battle_due_any_tick(spot_due, spot_found, since_check) ==
    since_check >= battle_check_interval_search

\* SEARCH mode: _check_battle_ready is reached only inside
\* "if now - last_spot_check_time >= 1.0", in the else branch of
\* "if spot_found", when the search interval has passed
search_battle_due(spot_due, spot_found, since_check) ==
    /\ spot_due
    /\ ~spot_found
    /\ since_check >= battle_check_interval_search

\* where an iteration of the loop can raise: nowhere; in the screen grab,
\* before anything is written; in the template matching or the spot click,
\* after last_spot_check_time is written; in _check_battle_ready, after
\* last_battle_check_time is written; in the print and log.info calls that
\* follow the assignment of current_mode when the mode is switched, or in
\* the print at the top of force_state, before the detector is written
\* (_emit_mode and the overlay updates catch their own exceptions)
FaultPoints == {"none", "grab", "spot", "check", "switch"}

\* the frames of an iteration that raises: none is grabbed when the grab
\* raises; otherwise the frame shows the spot or not and the run button or
\* not, and the detectors that never ran report nothing; when the switch of
\* the mode raises, every detector has run
FaultFrames(fault) ==
    IF fault = "switch"
    THEN Frames
    ELSE {f \in Frames :
            /\ f.tiles = tiles_min_count - 1 /\ ~f.coverage_ok
            /\ ~f.ocr_items /\ ~f.ocr_turn
            /\ fault = "grab" => (~f.spot /\ ~f.run)}

\* the time an iteration spends before the place where force_state is
\* called (the screen grab, the template matching, _check_battle_ready and,
\* in BATTLE mode, the rarity and HUD detectors): none or short; when an
\* exception cuts the iteration short, none (the call fails at once) or a
\* little less than short
BeforeTimes(fault) ==
    IF fault = "none" THEN {0, ShortWork} ELSE {0, ShortWork - 1}

\* the time an iteration spends after that place (in SEARCH mode the rarity
\* and HUD detectors that prime the battle, then _emit_mode and the overlay
\* update): none or short; none when the iteration raised
AfterTimes(fault) ==
    IF fault = "none" THEN {0, ShortWork} ELSE {0}

\* the sleep that ends the iteration: "time.sleep(0.1)" at the end of the
\* try block, "time.sleep(0.2)" in the except branch
iteration_sleep(fault) == IF fault = "none" THEN loop_sleep ELSE error_sleep

\* the iteration made a readiness reading: _check_battle_ready returned
ReadingMade(it) == it.battle_checked /\ it.raised # "check"

\* the history of readings after _check_battle_ready has returned ready:
\* the reading made before it, if any, and the new one
Read(readings, ready) ==
    IF readings = <<>>
    THEN <<ReadingName(ready)>>
    ELSE <<readings[Len(readings)], ReadingName(ready)>>

\* One iteration of the while loop in SEARCH mode.
\* before is the time from the top of the iteration to the return of
\* _check_battle_ready, after is the time of what follows force_state
\* (_detect_enemy_rarity, _detect_enemy_portrait_and_hp, _emit_mode, the
\* overlay); force_state reads time.time() itself, between the two
IterSearch(frame, before, after, fault) ==
    LET spot_due   == /\ fault # "grab"
                      /\ now - last_spot_check_time >= spot_check_interval
        clicked    == spot_due /\ frame.spot
        battle_due == /\ fault \notin {"grab", "spot"}
                      /\ search_battle_due(spot_due, frame.spot,
                                           now - last_battle_check_time)
        ready      == /\ battle_due
                      /\ fault # "check"
                      /\ check_battle_ready(frame, lp_cfg)
        u          == IF ready /\ fault # "switch"
                      THEN Forced("IN_BATTLE", now + before)
                      ELSE Forced(current_state, now)
    IN  /\ fault = "spot" => spot_due
        /\ fault = "check" => battle_due
        /\ fault = "switch" => ready
        /\ last_spot_check_time' = IF spot_due THEN now ELSE last_spot_check_time
        /\ last_battle_check_time' =
               IF battle_due THEN now ELSE last_battle_check_time
        /\ current_mode' = IF ready THEN "BATTLE" ELSE "SEARCH"
        /\ current_state' = u.state
        /\ consecutive_detections' = u.consec
        /\ state_entered_time' = u.entered
        /\ lp_last' = [mode_before |-> "SEARCH",
                       mode_after |-> IF ready THEN "BATTLE" ELSE "SEARCH",
                       frame_run |-> fault # "grab" /\ frame.run,
                       spot_checked |-> spot_due, clicked |-> clicked,
                       battle_checked |-> battle_due, ready |-> ready,
                       cooldown |-> FALSE, stopped_during |-> ~running,
                       raised |-> fault]
        /\ lp_readings' = IF battle_due /\ fault # "check"
                           THEN Read(lp_readings, ready)
                           ELSE lp_readings
        /\ now' = now + before + after + iteration_sleep(fault)

\* One iteration of the while loop in BATTLE mode.
\* before is the time to the end of the rarity and HUD detectors that follow
\* _check_battle_ready, after is the time of what follows force_state
\* (_emit_mode, _execute_battle_logic, the overlay), the cooldown apart
IterBattle(frame, before, after, fault) ==
    LET battle_due == /\ fault # "grab"
                      /\ now - last_battle_check_time
                             >= battle_check_interval_battle
        ready      == /\ battle_due
                      /\ fault # "check"
                      /\ check_battle_ready(frame, lp_cfg)
        leave      == battle_due /\ fault # "check" /\ ~ready
        slept      == leave /\ fault # "switch" /\ lp_cfg.cooldown_seconds > 0
        u          == IF leave /\ fault # "switch"
                      THEN Forced("SEARCHING", now + before)
                      ELSE Forced(current_state, now)
    IN  /\ fault # "spot"
        /\ fault = "check" => battle_due
        /\ fault = "switch" => leave
        /\ last_battle_check_time' =
               IF battle_due THEN now ELSE last_battle_check_time
        /\ current_mode' = IF leave THEN "SEARCH" ELSE "BATTLE"
        /\ last_spot_check_time' = IF leave THEN 0 ELSE last_spot_check_time
        /\ current_state' = u.state
        /\ consecutive_detections' = u.consec
        /\ state_entered_time' = u.entered
        /\ lp_last' = [mode_before |-> "BATTLE",
                       mode_after |-> IF leave THEN "SEARCH" ELSE "BATTLE",
                       frame_run |-> fault # "grab" /\ frame.run,
                       spot_checked |-> FALSE, clicked |-> FALSE,
                       battle_checked |-> battle_due, ready |-> ready,
                       cooldown |-> slept, stopped_during |-> ~running,
                       raised |-> fault]
        /\ lp_readings' = IF battle_due /\ fault # "check"
                           THEN Read(lp_readings, ready)
                           ELSE lp_readings
        /\ now' = now + before + after + iteration_sleep(fault)
                      + (IF slept THEN lp_cfg.cooldown_seconds ELSE 0)

\* The body of one iteration of "while self.running", on a fresh frame, to
\* the end of its try block: it runs to its end whatever stop() does
\* meanwhile
LoopIteration ==
    /\ lp_pc = "iter"
    /\ lp_pc' = "loop"
    /\ \E frame \in Frames, before \in BeforeTimes("none"),
          after \in AfterTimes("none") :
        IF current_mode = "SEARCH"
        THEN IterSearch(frame, before, after, "none")
        ELSE IterBattle(frame, before, after, "none")
    /\ UNCHANGED <<lp_cfg, running, lp_faults, has_template, det_log>>
    /\ UNCHANGED notLoop

\* An iteration that raises: what it wrote before the exception stays, the
\* except branch logs the error and sleeps, and the loop goes back to its
\* test (followed for the first MaxFaults exceptions of a run)
LoopIterationRaises ==
    /\ lp_pc = "iter"
    /\ lp_faults < MaxFaults
    /\ lp_faults' = lp_faults + 1
    /\ lp_pc' = "loop"
    /\ \E fault \in FaultPoints \ {"none"} :
        \E frame \in FaultFrames(fault), before \in BeforeTimes(fault),
           after \in AfterTimes(fault) :
            IF current_mode = "SEARCH"
            THEN IterSearch(frame, before, after, fault)
            ELSE IterBattle(frame, before, after, fault)
    /\ UNCHANGED <<lp_cfg, running, has_template, det_log>>
    /\ UNCHANGED notLoop

\* ======================================================================
\* utils.py : ip_rating_index, ip_rating_meets_minimum
\* ======================================================================

\* "return 999  # Unknown rating is weakest"
UNKNOWN_RATING_INDEX == 999

\* IP_RATINGS_ORDER.index(rating), or 999 for a rating not in the list
ip_rating_index(rating) ==
    IF \E i \in 1..Len(IP_RATINGS_ORDER) : IP_RATINGS_ORDER[i] = rating
    THEN (CHOOSE i \in 1..Len(IP_RATINGS_ORDER) : IP_RATINGS_ORDER[i] = rating) - 1
    ELSE UNKNOWN_RATING_INDEX

\* "not x" for a string or None
Falsy(x) == x = None \/ x = ""

\* the band utils.py accepts for 'B+ and Below'
UTILS_BELOW_BAND == {"B+", "B", "C+", "C", "D+", "D", "F+", "F"}

\* the comparison turned round, to compare with
ip_rating_meets_minimum_reversed(found, minimum) ==
    IF Falsy(found) \/ Falsy(minimum) THEN FALSE
    ELSE IF minimum = "B+ and Below" THEN found \in UTILS_BELOW_BAND
    ELSE ip_rating_index(found) >= ip_rating_index(minimum)

ip_rating_meets_minimum(found, minimum) ==
    IF Falsy(found) \/ Falsy(minimum) THEN FALSE
    ELSE IF minimum = "B+ and Below" THEN found \in UTILS_BELOW_BAND
    ELSE ip_rating_index(found) <= ip_rating_index(minimum)

\* ======================================================================
\* battle.py : SkillManager
\* ======================================================================

\* "4 skills per page", 12 skills in all
PAGE_SIZE == 4
SKILL_COUNT == 12

\* the page computed from the skill number itself, to compare with
get_page_for_skill_from_zero(skill_num) == (skill_num \div PAGE_SIZE) + 1

get_page_for_skill(skill_num) == ((skill_num - 1) \div PAGE_SIZE) + 1

\* the visible list starting one skill early, to compare with
page_skills_one_early(page) ==
    [i \in 1..PAGE_SIZE |-> ((page - 1) * PAGE_SIZE) + i - 1]

\* _update_visible_skills: the skills of a page
page_skills(page) == [i \in 1..PAGE_SIZE |-> ((page - 1) * PAGE_SIZE) + i]

\* Mutant: reset_to_page_1 leaves the page where it is.
reset_to_page_1_keeping(page) == page

\* reset_to_page_1: "self.current_page = 1" (the visible skills are those of
\* the page, [1, 2, 3, 4])
reset_to_page_1(page) == 1

\* Mutant: the page reached by an arrow click is not recorded.
turn_page_forgetting(page, arrow) == page

\* "self.current_page += 1" after a click on the right arrow,
\* "self.current_page -= 1" after a click on the left one
turn_page(page, arrow) == IF arrow = "right" THEN page + 1 ELSE page - 1

\* no SkillManager call is in progress
NoSkillCall ==
    [op |-> "none", skill |-> 0, arrow |-> "none", clicks_needed |-> 0]

\* navigate_to_skill from `page`, up to its first arrow click: what it
\* returns at once ("False" for a skill number outside 1..12, "True" when the
\* target page is the current one), or the arrow it is going to click and
\* how many times (clicks_needed)
navigate_to_skill(page, skill_num) ==
    IF ~(1 <= skill_num /\ skill_num <= SKILL_COUNT)
    THEN [ret |-> "False", arrow |-> "none", clicks_needed |-> 0]
    ELSE LET target_page == get_page_for_skill(skill_num)
         IN  IF target_page = page
             THEN [ret |-> "True", arrow |-> "none", clicks_needed |-> 0]
             ELSE IF target_page > page
             THEN [ret |-> "none", arrow |-> "right",
                   clicks_needed |-> target_page - page]
             ELSE [ret |-> "none", arrow |-> "left",
                   clicks_needed |-> page - target_page]

\* Mutant: use_skill clicks the first slot whatever the skill.
use_skill_first_slot(visible, skill_num) == [ok |-> TRUE, slot |-> 1]

\* use_skill once navigate_to_skill has returned True: False when the skill
\* is not among the visible ones, otherwise the slot it clicks
\* ("position = self.visible_skills.index(skill_num) + 1")
use_skill(visible, skill_num) ==
    IF \E i \in 1..PAGE_SIZE : visible[i] = skill_num
    THEN [ok |-> TRUE,
          slot |-> CHOOSE i \in 1..PAGE_SIZE : visible[i] = skill_num]
    ELSE [ok |-> FALSE, slot |-> 0]

\* int(skill_str.split()[-1]) for the skill names of the model; NoNumber when
\* it raises ValueError or IndexError
SkillNames == {"Skill 1", "Skill 11", "Skill 12", "Skill 13", "Skill x", ""}

skill_number(skill_str) ==
    CASE skill_str = "Skill 1"  -> Some(1)
      [] skill_str = "Skill 11" -> Some(11)
      [] skill_str = "Skill 12" -> Some(12)
      [] skill_str = "Skill 13" -> Some(13)
      [] OTHER -> NoNumber

\* "try: int(...) except (ValueError, IndexError): default"
skill_or_default(skill_str, default) ==
    IF skill_number(skill_str) = NoNumber THEN default
    ELSE Val(skill_number(skill_str))

\* ======================================================================
\* battle.py : BattleDetector.is_in_battle, Battle.is_eligible
\* ======================================================================

\* "return blue_ratio > 0.15", the ratio in per cent
BLUE_THRESHOLD == 15

\* is_in_battle: the flee template matches, or else the turn-indicator region
\* is more than 15% blue; blue is NoNumber when the grab raises or is empty
is_in_battle(flee_template, found, blue) ==
    IF flee_template /\ found THEN TRUE
    ELSE IF blue = NoNumber THEN FALSE
    ELSE Val(blue) > BLUE_THRESHOLD

\* the band battle.py accepts for 'B+ and Below'
BATTLE_BELOW_BAND == {"B+", "B", "C+", "C", "D+", "D", "F+", "F", "F-"}

\* rarity_cfg = per_rarity.get(rarity, {}) read with the defaults of is_eligible
rule_of(c, rarity) ==
    IF c.has_rule /\ rarity \in RARITIES
    THEN [enabled |-> c.enabled, min_ip_rating |-> c.min_ip_rating]
    ELSE [enabled |-> FALSE, min_ip_rating |-> "A"]

\* the policy that does not look at enabled, to compare with
is_eligible_ignoring_enabled(c, rarity, ip_rating) ==
    IF Falsy(rarity) THEN FALSE
    ELSE IF Falsy(ip_rating) THEN FALSE
    ELSE IF rule_of(c, rarity).min_ip_rating = "B+ and Below"
         THEN ip_rating \in BATTLE_BELOW_BAND
         ELSE ip_rating_meets_minimum(ip_rating, rule_of(c, rarity).min_ip_rating)

is_eligible(c, rarity, ip_rating) ==
    IF Falsy(rarity) THEN FALSE
    ELSE IF ~rule_of(c, rarity).enabled THEN FALSE
    ELSE IF Falsy(ip_rating) THEN FALSE
    ELSE IF rule_of(c, rarity).min_ip_rating = "B+ and Below"
         THEN ip_rating \in BATTLE_BELOW_BAND
         ELSE ip_rating_meets_minimum(ip_rating, rule_of(c, rarity).min_ip_rating)

\* ======================================================================
\* battle.py : the configuration and the readings of an encounter
\* ======================================================================

\* "max_attempts = 20  # Safety limit" of chip_hp_safely
CHIP_MAX_ATTEMPTS == 20
\* "for i in range(1, 8)" and "for i in range(1, 12)" of defeat_miscrit
QUICK_DEFEAT_ATTACKS == 7
CHECKED_DEFEAT_ATTACKS == 11
\* the defaults of the .get() calls
DEFAULT_DAMAGE_SKILL == 12
DEFAULT_DEFEAT_SKILL == 1
DEFAULT_HP_THRESHOLD == 10
\* "hp = 100.0  # Assume full HP if unreadable"
ASSUMED_HP == 100

\* the largest number of capture attempts configured, and of encounters run
MaxAttempts == 2
MaxBattles == 1

\* the configurations: every rarity has the same rule, or none has a rule
AllConfigs ==
    [has_rule : BOOLEAN, enabled : BOOLEAN,
     min_ip_rating : {"A", "B+ and Below"},
     damage_skill : {"Skill 11", "Skill 13"},
     defeat_skill : {"Skill 1"},
     capture_hp_percent : {DEFAULT_HP_THRESHOLD},
     attempts : 1..MaxAttempts,
     quick_defeat : BOOLEAN,
     flee_template : BOOLEAN]

\* a configuration that captures, with every asset loaded
UsualConfig ==
    [has_rule |-> TRUE, enabled |-> TRUE, min_ip_rating |-> "A",
     damage_skill |-> "Skill 11", defeat_skill |-> "Skill 1",
     capture_hp_percent |-> DEFAULT_HP_THRESHOLD, attempts |-> MaxAttempts,
     quick_defeat |-> TRUE, flee_template |-> TRUE]

\* the configurations studied: the usual one and those one setting away
EncConfigs ==
    {c \in AllConfigs :
        Cardinality({f \in DOMAIN c : c[f] # UsualConfig[f]}) <= 1}

\* the readings the screen can give
RateReadings == {NoNumber, Some(50), Some(45), Some(31)}
HpReadings == {NoNumber, Some(0), Some(DEFAULT_HP_THRESHOLD),
               Some(DEFAULT_HP_THRESHOLD + 1), Some(ASSUMED_HP)}
BlueReadings == {NoNumber, Some(BLUE_THRESHOLD), Some(BLUE_THRESHOLD + 1)}

\* wait_for_turn: True when the turn indicator showed up before the timeout
TurnName(ready) == IF ready THEN "ready" ELSE "timeout"

\* "check_interval = 0.5" of wait_for_turn and wait_for_battle_end, and the
\* timeouts the callers pass, in tenths of a second
CHECK_INTERVAL == 5
TURN_TIMEOUT_START == 100
TURN_TIMEOUT_CHIP == 80
TURN_TIMEOUT_CAPTURE == 50
TURN_TIMEOUT_DEFEAT == 60
BATTLE_END_TIMEOUT == 50

\* A wait is followed poll by poll when wt starts at NoWait; with WaitOff the
\* waits are single steps that yield their result.
\* elapsed is time.time() - start_time; ready is the result wait_for_turn is
\* going to return, drawn when the wait begins.
WaitOff == [kind |-> "off", elapsed |-> 0, timeout |-> 0, ready |-> FALSE]
NoWait == [kind |-> "none", elapsed |-> 0, timeout |-> 0, ready |-> FALSE]

\* wait_for_turn(timeout) is called
begin_wait(w, timeout, ready) ==
    IF w.kind = "off" THEN w
    ELSE [kind |-> "turn", elapsed |-> 0, timeout |-> timeout, ready |-> ready]

\* a poll loop whose clock stands still, to compare with
elapsed_after_poll_stuck(elapsed) == elapsed

\* "time.sleep(check_interval)" at the end of a poll
elapsed_after_poll(elapsed) == elapsed + CHECK_INTERVAL

\* the controller is not inside a wait
NotWaiting == wt.kind \in {"off", "none"}

ZeroStats == [total_battles |-> 0, captures_attempted |-> 0,
              captures_successful |-> 0, skipped |-> 0, defeated |-> 0]

\* no encounter is being handled; stats_before is history: Battle.stats when
\* handle_encounter was called; cleanup is history: the calls the emergency
\* cleanup of handle_encounter has made; chipped is history: how
\* chip_hp_safely ended ("reached" returns True, "skill_failed" and
\* "exhausted" return False); defeat_stop is history: what ended the loop of
\* the current defeat_miscrit call; defeat_raised and defeat_returned are
\* history: the defeat_miscrit calls of this encounter that ended with an
\* exception and that returned; page_at_call is history: the page the skill
\* manager was on when handle_encounter was called, kept until the capture
\* rate has been read (0: not recorded)
NoEncounter ==
    [path |-> "none", rate |-> NoNumber, ip_rating |-> None, rarity |-> None,
     i |-> 0, quick |-> TRUE, emergency |-> FALSE, success |-> FALSE,
     turn |-> "none", result |-> "none", stats_before |-> ZeroStats,
     cleanup |-> <<>>, chipped |-> "none", defeat_stop |-> "none",
     defeat_raised |-> 0, defeat_returned |-> 0, page_at_call |-> 0]

NoCheck == [called |-> FALSE, found |-> FALSE, blue |-> NoNumber,
            result |-> FALSE]

\* One thread runs at a time (the interpreter lock): enc_pc, enc, enc_acts,
\* bm_last, wt and sk_call are the locals and the history of the thread that
\* is running, bm_other keeps those of the thread that is suspended.
\* NoCaller: no second thread exists
NoCaller == [pc |-> "off", enc |-> NoEncounter, enc_acts |-> <<>>,
             bm_last |-> NoCheck, wt |-> WaitOff, sk_call |-> NoSkillCall]

\* a second thread that has not called check_and_handle_battle yet
IdleCaller == [NoCaller EXCEPT !.pc = "idle"]

\* the threads that call check_and_handle_battle on the BattleManager
Callers == IF bm_other.pc = "off" THEN 1 ELSE 2

\* BattleManager.__init__, Battle.__init__, SkillManager.__init__
EncounterInit ==
    /\ \/ enc_cfg \in EncConfigs /\ io_raises = FALSE
       \/ enc_cfg = UsualConfig /\ io_raises = TRUE
    /\ enc_pc = "idle"
    /\ in_battle = FALSE
    /\ battle_count = 0
    /\ stats = ZeroStats
    /\ current_page = 1
    /\ visible_skills = page_skills(1)
    /\ enc = NoEncounter
    /\ enc_acts = <<>>
    /\ bm_last = NoCheck
    /\ since_return = NoNumber
    /\ wt = WaitOff
    /\ sk_call = NoSkillCall

\* the battle controller when another component is under study
EncounterIdle ==
    /\ enc_cfg = UsualConfig
    /\ io_raises = FALSE
    /\ enc_pc = "off"
    /\ in_battle = FALSE
    /\ battle_count = 0
    /\ stats = ZeroStats
    /\ current_page = 1
    /\ visible_skills = page_skills(1)
    /\ enc = NoEncounter
    /\ enc_acts = <<>>
    /\ bm_last = NoCheck
    /\ since_return = NoNumber
    /\ wt = WaitOff
    /\ sk_call = NoSkillCall
    /\ bm_other = NoCaller

\* ======================================================================
\* battle.py : BattleManager.check_and_handle_battle, Battle.handle_encounter
\* ======================================================================

\* defeat_miscrit(quick_mode) begins
BeginDefeat(e, quick) ==
    [e EXCEPT !.i = 1, !.quick = quick, !.turn = "none", !.defeat_stop = "none"]

\* "except Exception" returning False with no cleanup, to compare with
Raise_without_cleanup(e) ==
    [pc |-> "return", enc |-> [e EXCEPT !.result = "False", !.emergency = TRUE,
                                        !.path = "emergency"]]

\* an exception reaches "except Exception" of handle_encounter: the emergency
\* cleanup begins; one raised inside the cleanup is passed over and
\* handle_encounter returns False
Raise(e) ==
    IF e.emergency THEN [pc |-> "return", enc |-> [e EXCEPT !.result = "False"]]
    ELSE [pc |-> "defeat",
          enc |-> [BeginDefeat(e, TRUE) EXCEPT !.emergency = TRUE,
                                               !.path = "emergency",
                                               !.cleanup = <<"defeat_miscrit">>]]

\* Mutant: the battle is flagged but not counted.
begin_battle_uncounted(count) == [in_battle |-> TRUE, battle_count |-> count]

\* "self.in_battle = True; self.battle_count += 1"
begin_battle(count) == [in_battle |-> TRUE, battle_count |-> count + 1]

\* check_and_handle_battle is called: "if not self.in_battle" is evaluated;
\* with the flag set the call returns False and is_in_battle() is not
\* called. The model follows MaxBattles encounters per thread from start to
\* return, and the next one up to its start.
CheckAndHandleBattle ==
    /\ enc_pc = "idle"
    /\ NotWaiting
    /\ battle_count <= MaxBattles * Callers
    /\ enc_pc' = IF in_battle THEN "idle" ELSE "tested"
    /\ UNCHANGED <<enc_cfg, io_raises, sk_call, in_battle, battle_count, stats,
                   current_page, visible_skills, enc, enc_acts, bm_last,
                   since_return, wt>>
    /\ UNCHANGED notEncounter

\* "if self.battle.detector.is_in_battle()": a screen grab and a template
\* match, made after the flag was read; the call returns False when no
\* battle is seen
DetectBattle ==
    /\ enc_pc = "tested"
    /\ \E found \in BOOLEAN, blue \in BlueReadings :
        LET r == is_in_battle(enc_cfg.flee_template, found, blue)
        IN  /\ bm_last' = [called |-> TRUE, found |-> found, blue |-> blue,
                           result |-> r]
            /\ enc_pc' = IF r THEN "detected" ELSE "idle"
    /\ UNCHANGED <<enc_cfg, io_raises, sk_call, in_battle, battle_count, stats,
                   current_page, visible_skills, enc, enc_acts, since_return,
                   wt>>
    /\ UNCHANGED notEncounter

\* "self.in_battle = True; self.battle_count += 1", then handle_encounter
\* is called
BeginBattle ==
    /\ enc_pc = "detected"
    /\ in_battle' = begin_battle(battle_count).in_battle
    /\ battle_count' = begin_battle(battle_count).battle_count
    /\ enc_pc' = "start"
    /\ enc' = [NoEncounter EXCEPT !.stats_before = stats]
    /\ enc_acts' = <<>>
    /\ UNCHANGED <<enc_cfg, io_raises, sk_call, stats, current_page,
                   visible_skills, bm_last, since_return, wt>>
    /\ UNCHANGED notEncounter

\* handle_encounter begins: the battle is counted, then the battle UI is
\* given time.sleep(1.5) to settle
EncounterStart ==
    /\ enc_pc = "start"
    /\ stats.total_battles < MaxBattles * Callers
    /\ NotWaiting
    /\ enc' = [enc EXCEPT !.page_at_call = current_page]
    /\ stats' = [stats EXCEPT !.total_battles = @ + 1]
    /\ enc_pc' = "reset"
    /\ bm_last' = NoCheck
    /\ UNCHANGED <<enc_cfg, io_raises, sk_call, in_battle, battle_count,
                   current_page, visible_skills, enc_acts, since_return, wt>>
    /\ UNCHANGED notEncounter

\* handle_encounter after the sleep: reset_to_page_1(), then
\* wait_for_turn(10.0)
EncounterReset ==
    /\ enc_pc = "reset"
    /\ NotWaiting
    /\ \E ready \in BOOLEAN :
        /\ enc' = [enc EXCEPT !.turn = TurnName(ready)]
        /\ wt' = begin_wait(wt, TURN_TIMEOUT_START, ready)
    /\ current_page' = reset_to_page_1(current_page)
    /\ visible_skills' = page_skills(current_page')
    /\ enc_pc' = "measure"
    /\ UNCHANGED <<enc_cfg, io_raises, sk_call, in_battle, battle_count, stats,
                   enc_acts, bm_last, since_return>>
    /\ UNCHANGED notEncounter

\* the path that captures whatever is_eligible says, to compare with
encounter_path_ignoring_eligibility(c, rarity, ip_rating) ==
    IF Falsy(rarity) \/ Falsy(ip_rating) THEN "unknown" ELSE "capture"

\* the branch handle_encounter takes on (capture_rate, ip_rating, rarity)
encounter_path(c, rarity, ip_rating) ==
    IF Falsy(rarity) \/ Falsy(ip_rating) THEN "unknown"
    ELSE IF ~is_eligible(c, rarity, ip_rating) THEN "skip"
    ELSE "capture"

\* handle_encounter: read the capture rate and decide the path
Measure ==
    /\ enc_pc = "measure"
    /\ NotWaiting
    /\ \E rate \in RateReadings :
        LET info     == get_miscrit_info(rate)
            e        == [enc EXCEPT !.rate = info[1], !.ip_rating = info[2],
                                    !.rarity = info[3], !.page_at_call = 0]
            path     == encounter_path(enc_cfg, info[3], info[2])
        IN  IF path = "unknown"
            THEN /\ enc' = [BeginDefeat(e, TRUE) EXCEPT !.path = "unknown"]
                 /\ enc_pc' = "defeat"
                 /\ stats' = stats
            ELSE IF path = "skip"
            THEN /\ enc' = [BeginDefeat(e, enc_cfg.quick_defeat)
                                EXCEPT !.path = "skip"]
                 /\ enc_pc' = "defeat"
                 /\ stats' = [stats EXCEPT !.skipped = @ + 1]
            ELSE /\ enc' = [e EXCEPT !.path = "capture", !.i = 1]
                 /\ enc_pc' = "chip"
                 /\ stats' = stats
    /\ UNCHANGED <<enc_cfg, io_raises, sk_call, in_battle, battle_count, current_page,
                   visible_skills, enc_acts, bm_last, since_return, wt>>
    /\ UNCHANGED notEncounter

\* the chip loop running one iteration longer, to compare with
chip_loop_over_late(attempt) == attempt >= CHIP_MAX_ATTEMPTS + 1

\* "for attempt in range(1, max_attempts + 1)" of chip_hp_safely is over
\* after the iteration numbered `attempt`
chip_loop_over(attempt) == attempt >= CHIP_MAX_ATTEMPTS

\* an exception leaves the step for "except Exception" of handle_encounter
Raised(e) ==
    /\ enc' = Raise(e).enc
    /\ enc_pc' = Raise(e).pc
    /\ UNCHANGED <<enc_acts, wt>>

\* the encounter as the exception of a click finds it: one raised under
\* defeat_miscrit ends that call
AtFault == IF enc_pc = "defeat" THEN [enc EXCEPT !.defeat_raised = @ + 1]
           ELSE enc

\* chip_hp_safely after use_skill(damage_skill) returned: False ends the
\* loop; otherwise time.sleep(2.0), wait_for_turn(8.0) and the next
\* iteration, if any. After the loop handle_encounter goes on to
\* attempt_capture whatever chip_hp_safely returned.
ChipAttacked(ok, ready) ==
    LET toCapture == [enc EXCEPT !.i = 1]
    IN  IF ~ok
        THEN /\ enc' = [toCapture EXCEPT !.chipped = "skill_failed"]
             /\ enc_pc' = "capture"
             /\ UNCHANGED <<enc_acts, wt>>
        ELSE /\ enc_acts' = Append(enc_acts, "damage")
             /\ wt' = begin_wait(wt, TURN_TIMEOUT_CHIP, ready)
             /\ IF chip_loop_over(enc.i)
                THEN /\ enc' = [toCapture EXCEPT !.turn = TurnName(ready),
                                                 !.chipped = "exhausted"]
                     /\ enc_pc' = "capture"
                ELSE /\ enc' = [enc EXCEPT !.i = @ + 1,
                                           !.turn = TurnName(ready)]
                     /\ enc_pc' = "chip"

\* the attacks the loop of defeat_miscrit makes at most
defeat_attacks(quick) ==
    IF quick THEN QUICK_DEFEAT_ATTACKS ELSE CHECKED_DEFEAT_ATTACKS

\* defeat_miscrit after use_skill(defeat_skill) returned: its result is not
\* looked at; time.sleep(1.8), wait_for_turn(6.0) when HP is checked, and
\* the next iteration, if any
DefeatAttacked(ok, ready) ==
    LET turn == IF enc.quick THEN enc.turn ELSE TurnName(ready)
    IN  /\ wt' = IF enc.quick THEN wt
                 ELSE begin_wait(wt, TURN_TIMEOUT_DEFEAT, ready)
        /\ enc_acts' = IF ok THEN Append(enc_acts, "defeat") ELSE enc_acts
        /\ enc' = [enc EXCEPT !.i = @ + 1, !.turn = turn,
                              !.defeat_stop =
                                  IF enc.i >= defeat_attacks(enc.quick)
                                  THEN "cap" ELSE @]
        /\ enc_pc' = IF enc.i >= defeat_attacks(enc.quick)
                     THEN "wait_end" ELSE "defeat"

\* use_skill once navigate_to_skill has returned True, and what its caller
\* does next; fault: the click on the slot raises
SkillUsed(visible, skill_num, ready, fault) ==
    LET u == use_skill(visible, skill_num)
    IN  /\ fault => u.ok
        /\ IF fault THEN Raised(AtFault)
           ELSE IF enc_pc = "chip" THEN ChipAttacked(u.ok, ready)
           ELSE DefeatAttacked(u.ok, ready)

\* navigate_to_skill clicks an arrow, with clicks_needed clicks to make
\* counting this one, and sleeps; fault: the click raises
ArrowClicked(skill_num, arrow, clicks_needed, fault) ==
    IF fault
    THEN /\ Raised(AtFault)
         /\ sk_call' = NoSkillCall
    ELSE /\ sk_call' = [op |-> "use", skill |-> skill_num, arrow |-> arrow,
                        clicks_needed |-> clicks_needed]
         /\ UNCHANGED <<enc, enc_pc, enc_acts, wt>>

\* one iteration of the loop of chip_hp_safely, up to the first sleep of
\* navigate_to_skill when the damage skill is on another page
ChipStep ==
    /\ enc_pc = "chip"
    /\ NotWaiting
    /\ sk_call = NoSkillCall
    /\ \E hp \in HpReadings, ready \in BOOLEAN, fault \in {FALSE, io_raises} :
        LET hpv    == IF hp = NoNumber THEN ASSUMED_HP ELSE Val(hp)
            damage_skill_str == IF enc_cfg.has_rule THEN enc_cfg.damage_skill
                                ELSE "Skill 12"
            damage_skill == skill_or_default(damage_skill_str,
                                             DEFAULT_DAMAGE_SKILL)
            nav    == navigate_to_skill(current_page, damage_skill)
        IN  IF hpv <= enc_cfg.capture_hp_percent
            THEN /\ ~fault
                 /\ enc' = [enc EXCEPT !.i = 1, !.chipped = "reached"]
                 /\ enc_pc' = "capture"
                 /\ UNCHANGED <<enc_acts, wt, sk_call>>
            ELSE IF nav.ret = "False"
            THEN /\ ~fault
                 /\ ChipAttacked(FALSE, ready)
                 /\ UNCHANGED sk_call
            ELSE IF nav.ret = "True"
            THEN /\ SkillUsed(visible_skills, damage_skill, ready, fault)
                 /\ UNCHANGED sk_call
            ELSE ArrowClicked(damage_skill, nav.arrow, nav.clicks_needed,
                              fault)
    /\ UNCHANGED <<current_page, visible_skills>>
    /\ UNCHANGED <<enc_cfg, io_raises, in_battle, battle_count, stats, bm_last,
                   since_return>>
    /\ UNCHANGED notEncounter

\* the use_skill call of chip_hp_safely or defeat_miscrit after
\* "time.sleep(0.3)": the page and the visible skills are updated; then the
\* arrow is clicked again, or navigate_to_skill returns and use_skill clicks
\* the slot
TurnPage ==
    /\ enc_pc \in {"chip", "defeat"}
    /\ sk_call.arrow # "none"
    /\ \E ready \in BOOLEAN, fault \in {FALSE, io_raises} :
        LET page    == turn_page(current_page, sk_call.arrow)
            visible == page_skills(page)
        IN  /\ current_page' = page
            /\ visible_skills' = visible
            /\ IF sk_call.clicks_needed > 1
               THEN ArrowClicked(sk_call.skill, sk_call.arrow,
                                 sk_call.clicks_needed - 1, fault)
               ELSE /\ SkillUsed(visible, sk_call.skill, ready, fault)
                    /\ sk_call' = NoSkillCall
    /\ UNCHANGED <<enc_cfg, io_raises, in_battle, battle_count, stats, bm_last,
                   since_return>>
    /\ UNCHANGED notEncounter

\* Mutant: a failed attempt sends handle_encounter back to chip_hp_safely.
after_capture_rechipping(ended, attempt, max_attempts) ==
    IF ended THEN [success |-> TRUE, over |-> TRUE, pc |-> "continue"]
    ELSE IF attempt >= max_attempts
    THEN [success |-> FALSE, over |-> TRUE, pc |-> "defeat"]
    ELSE [success |-> FALSE, over |-> FALSE, pc |-> "chip"]

\* what follows the capture key of the attempt numbered `attempt`:
\* is_battle_ended() true returns True from attempt_capture and
\* handle_encounter goes to click_continue; the last failed attempt returns
\* False and handle_encounter goes to defeat_miscrit; otherwise the loop goes on
after_capture(ended, attempt, max_attempts) ==
    IF ended THEN [success |-> TRUE, over |-> TRUE, pc |-> "continue"]
    ELSE IF attempt >= max_attempts
    THEN [success |-> FALSE, over |-> TRUE, pc |-> "defeat"]
    ELSE [success |-> FALSE, over |-> FALSE, pc |-> "capture"]

\* an iteration of the loop of attempt_capture begins: the capture key is
\* pressed, then time.sleep(3.5) lets the capture animation play
CaptureStep ==
    /\ enc_pc = "capture"
    /\ NotWaiting
    /\ \E fault \in {FALSE, io_raises} :
        IF fault
        THEN Raised(enc)
        ELSE /\ enc_acts' = Append(enc_acts, "capture")
             /\ enc_pc' = "capture_check"
             /\ UNCHANGED <<enc, wt>>
    /\ UNCHANGED <<enc_cfg, io_raises, sk_call, in_battle, battle_count, stats,
                   current_page, visible_skills, bm_last, since_return>>
    /\ UNCHANGED notEncounter

\* the iteration after the sleep: is_battle_ended() true counts the capture
\* and returns True; otherwise wait_for_turn(5.0) follows, and then the next
\* iteration or the end of the loop
CaptureCheck ==
    /\ enc_pc = "capture_check"
    /\ \E ended \in BOOLEAN, ready \in BOOLEAN :
        LET o == after_capture(ended, enc.i, enc_cfg.attempts)
            e == [enc EXCEPT !.success = o.success]
        IN  /\ wt' = IF o.success THEN wt
                     ELSE begin_wait(wt, TURN_TIMEOUT_CAPTURE, ready)
            /\ stats' = IF o.success
                        THEN [stats EXCEPT !.captures_successful = @ + 1]
                        ELSE stats
            /\ enc_pc' = IF o.over /\ ~o.success THEN "capture_over" ELSE o.pc
            /\ enc' = IF o.success
                      THEN (IF o.pc = "defeat" THEN BeginDefeat(e, TRUE) ELSE e)
                      ELSE IF o.pc = "capture"
                      THEN [e EXCEPT !.i = @ + 1, !.turn = TurnName(ready)]
                      ELSE [e EXCEPT !.turn = TurnName(ready)]
    /\ UNCHANGED <<enc_cfg, io_raises, sk_call, in_battle, battle_count,
                   current_page, visible_skills, enc_acts, bm_last,
                   since_return>>
    /\ UNCHANGED notEncounter

\* the loop of attempt_capture is over, its last wait_for_turn has
\* returned: the attempts are counted, attempt_capture returns False and
\* handle_encounter calls defeat_miscrit(quick_mode=True)
CaptureOver ==
    /\ enc_pc = "capture_over"
    /\ NotWaiting
    /\ stats' = [stats EXCEPT !.captures_attempted = @ + enc_cfg.attempts]
    /\ enc' = BeginDefeat(enc, TRUE)
    /\ enc_pc' = "defeat"
    /\ UNCHANGED <<enc_cfg, io_raises, sk_call, in_battle, battle_count,
                   current_page, visible_skills, enc_acts, bm_last,
                   since_return, wt>>
    /\ UNCHANGED notEncounter

\* one iteration of the loop of defeat_miscrit, up to the first sleep of
\* navigate_to_skill when the defeat skill is on another page
DefeatStep ==
    /\ enc_pc = "defeat"
    /\ NotWaiting
    /\ sk_call = NoSkillCall
    /\ \E hp \in HpReadings, ended \in BOOLEAN, ready \in BOOLEAN,
          fault \in {FALSE, io_raises} :
        LET defeat_skill == skill_or_default(enc_cfg.defeat_skill,
                                             DEFAULT_DEFEAT_SKILL)
            nav    == navigate_to_skill(current_page, defeat_skill)
            dead   == ~enc.quick /\ hp # NoNumber /\ Val(hp) <= 0
        IN  IF dead \/ ended
            THEN /\ ~fault
                 /\ enc' = [enc EXCEPT !.defeat_stop =
                                IF dead THEN "hp_zero" ELSE "battle_ended"]
                 /\ enc_pc' = "wait_end"
                 /\ UNCHANGED <<enc_acts, wt, sk_call>>
            ELSE IF nav.ret = "False"
            THEN /\ ~fault
                 /\ DefeatAttacked(FALSE, ready)
                 /\ UNCHANGED sk_call
            ELSE IF nav.ret = "True"
            THEN /\ SkillUsed(visible_skills, defeat_skill, ready, fault)
                 /\ UNCHANGED sk_call
            ELSE ArrowClicked(defeat_skill, nav.arrow, nav.clicks_needed,
                              fault)
    /\ UNCHANGED <<current_page, visible_skills>>
    /\ UNCHANGED <<enc_cfg, io_raises, in_battle, battle_count, stats, bm_last,
                   since_return>>
    /\ UNCHANGED notEncounter

\* the end of defeat_miscrit: wait_for_battle_end(5.0), whose result is not
\* looked at, then the defeat is counted
WaitBattleEnd ==
    /\ enc_pc = "wait_end"
    /\ wt.kind \in {"off", "ended"}
    /\ wt' = IF wt.kind = "off" THEN wt ELSE NoWait
    /\ stats' = [stats EXCEPT !.defeated = @ + 1]
    /\ enc' = [enc EXCEPT !.defeat_returned = @ + 1]
    /\ enc_pc' = "continue"
    /\ UNCHANGED <<enc_cfg, io_raises, sk_call, in_battle, battle_count, current_page,
                   visible_skills, enc_acts, bm_last, since_return>>
    /\ UNCHANGED notEncounter

\* one pass of "while time.time() - start_time < timeout" of wait_for_turn:
\* the loop ends when the time is up, returns True when the indicator is
\* seen, and otherwise sleeps check_interval
TurnPoll ==
    /\ wt.kind = "turn"
    /\ IF wt.elapsed >= wt.timeout
       THEN wt' = NoWait
       ELSE \E seen \in BOOLEAN :
               /\ seen => wt.ready
               /\ (wt.ready /\ elapsed_after_poll(wt.elapsed) >= wt.timeout)
                      => seen
               /\ wt' = IF seen THEN NoWait
                        ELSE [wt EXCEPT !.elapsed = elapsed_after_poll(@)]
    /\ UNCHANGED <<enc_cfg, io_raises, sk_call, enc_pc, in_battle, battle_count, stats,
                   current_page, visible_skills, enc, enc_acts, bm_last,
                   since_return>>
    /\ UNCHANGED notEncounter

\* one pass of the loop of wait_for_battle_end(5.0) in defeat_miscrit
BattleEndPoll ==
    /\ enc_pc = "wait_end"
    /\ wt.kind \in {"none", "battle_end"}
    /\ LET w == IF wt.kind = "none"
                THEN [NoWait EXCEPT !.kind = "battle_end",
                                    !.timeout = BATTLE_END_TIMEOUT]
                ELSE wt
       IN  IF w.elapsed >= w.timeout
           THEN wt' = [NoWait EXCEPT !.kind = "ended"]
           ELSE \E ended \in BOOLEAN :
                   wt' = IF ended THEN [NoWait EXCEPT !.kind = "ended"]
                         ELSE [w EXCEPT !.elapsed = elapsed_after_poll(@)]
    /\ UNCHANGED <<enc_cfg, io_raises, sk_call, enc_pc, in_battle, battle_count, stats,
                   current_page, visible_skills, enc, enc_acts, bm_last,
                   since_return>>
    /\ UNCHANGED notEncounter

\* the Continue button clicked twice, to compare with
click_continue_twice(acts) == Append(Append(acts, "continue"), "continue")

\* click_continue: one click on the continue_button region
click_continue(acts) == Append(acts, "continue")

\* click_continue, then handle_encounter returns
ClickContinue ==
    /\ enc_pc = "continue"
    /\ NotWaiting
    /\ \E fault \in {FALSE, io_raises} :
        LET e == IF enc.emergency
                 THEN [enc EXCEPT !.cleanup = Append(@, "click_continue")]
                 ELSE enc
        IN  IF fault
            THEN /\ enc' = Raise(e).enc
                 /\ enc_pc' = Raise(e).pc
                 /\ enc_acts' = enc_acts
            ELSE /\ enc_acts' = click_continue(enc_acts)
                 /\ enc' = [e EXCEPT !.result =
                                IF enc.emergency THEN "False" ELSE "True"]
                 /\ enc_pc' = "return"
    /\ UNCHANGED <<enc_cfg, io_raises, sk_call, in_battle, battle_count, stats,
                   current_page, visible_skills, bm_last, since_return, wt>>
    /\ UNCHANGED notEncounter

\* check_and_handle_battle after handle_encounter returned
EncounterReturn ==
    /\ enc_pc = "return"
    /\ in_battle' = FALSE
    /\ enc_pc' = "idle"
    /\ enc' = NoEncounter
    /\ enc_acts' = <<>>
    /\ bm_last' = NoCheck
    /\ since_return' = Some(0)
    /\ UNCHANGED wt
    /\ UNCHANGED <<enc_cfg, io_raises, sk_call, battle_count, stats, current_page,
                   visible_skills>>
    /\ UNCHANGED notEncounter

\* Battle.get_stats: a copy of stats with capture_success_rate added, as the
\* fraction <<numerator, denominator>>; self.stats is only read
get_stats(st) ==
    [total_battles |-> st.total_battles,
     captures_attempted |-> st.captures_attempted,
     captures_successful |-> st.captures_successful,
     skipped |-> st.skipped,
     defeated |-> st.defeated,
     capture_success_rate |->
         IF st.captures_attempted > 0
         THEN <<st.captures_successful * 100, st.captures_attempted>>
         ELSE <<0, 1>>]

\* Between two calls of check_and_handle_battle a tenth of a second passes;
\* the time since the last return is followed up to the cooldown
\* (search.cooldown_seconds), which nothing in battle.py reads.
ManagerWait ==
    /\ enc_pc = "idle"
    /\ since_return # NoNumber
    /\ Val(since_return) < cooldown_default
    /\ since_return' = Some(Val(since_return) + 1)
    /\ UNCHANGED <<enc_cfg, io_raises, sk_call, enc_pc, in_battle, battle_count, stats,
                   current_page, visible_skills, enc, enc_acts, bm_last, wt>>
    /\ UNCHANGED notEncounter

\* ======================================================================
\* battle.py : HPMonitor.get_hp_percent
\* ======================================================================

\* a pixel is its (H, S, V) after cv2.cvtColor(frame, COLOR_RGB2HSV)
\* cv2.inRange(hsv, lower, upper): every channel within its closed range
inRange(px, lower, upper) ==
    \A ch \in 1..3 : lower[ch] <= px[ch] /\ px[ch] <= upper[ch]

\* hp_mask = green_mask | yellow_mask | red_mask
hp_mask(px) ==
    \/ inRange(px, <<40, 50, 50>>, <<80, 255, 255>>)
    \/ inRange(px, <<20, 50, 50>>, <<40, 255, 255>>)
    \/ inRange(px, <<0, 50, 50>>, <<10, 255, 255>>)

\* np.where(hp_mask[row] > 0)[0]: the 0-based columns of the row in the mask
row_pixels(row) == {c \in 0..(Len(row) - 1) : hp_mask(row[c + 1])}

\* row_pixels[-1]: the rightmost of them
rightmost(cols) == CHOOSE c \in cols : \A d \in cols : d <= c

\* the sum of the rightmost columns of the rows from r on, and how many rows
\* have one
RECURSIVE filled_cols(_, _)
filled_cols(px, r) ==
    IF r > Len(px) THEN [sum |-> 0, len |-> 0]
    ELSE LET rest == filled_cols(px, r + 1)
             cols == row_pixels(px[r])
         IN  IF cols = {} THEN rest
             ELSE [sum |-> rest.sum + rightmost(cols), len |-> rest.len + 1]

\* a percentage as an exact fraction <<numerator, denominator>>
\* min(100.0, max(0.0, percent))
clamp_percent(q) ==
    IF q[1] < 0 THEN <<0, 1>>
    ELSE IF q[1] > 100 * q[2] THEN <<100, 1>>
    ELSE q

\* the reading that takes an empty mask for an empty bar, to compare with
get_hp_percent_zero_for_no_pixel(frame) ==
    IF frame.grab # "ok" THEN NoNumber
    ELSE LET f == filled_cols(frame.px, 1)
         IN  IF f.len = 0 THEN Some(<<0, 1>>)
             ELSE Some(clamp_percent(<<100 * f.sum, f.len * Len(frame.px[1])>>))

\* get_hp_percent on a grab: "raises" when anything in the try block raises,
\* "empty" when frame.size == 0, else the pixels row by row
get_hp_percent(frame) ==
    IF frame.grab = "raises" THEN NoNumber
    ELSE IF frame.grab = "empty" THEN NoNumber
    ELSE IF \A r \in 1..Len(frame.px) : row_pixels(frame.px[r]) = {}
    THEN NoNumber
    ELSE LET f == filled_cols(frame.px, 1)
         IN  IF f.len = 0 THEN Some(<<0, 1>>)
             ELSE Some(clamp_percent(<<100 * f.sum, f.len * Len(frame.px[1])>>))

\* the size of the region studied
HpRows == 2
HpCols == 2

\* the pixels studied: full green, the weakest red the mask accepts, a hue
\* between the red and the yellow band, a green too dull for the mask
HpPixels == {<<60, 255, 255>>, <<10, 50, 50>>, <<11, 255, 255>>, <<60, 49, 255>>}

HpFrames ==
    {[grab |-> "raises", px |-> <<>>], [grab |-> "empty", px |-> <<>>]}
    \cup {[grab |-> "ok", px |-> p] :
            p \in [1..HpRows -> [1..HpCols -> HpPixels]]}

HpInit ==
    /\ hp_frame \in HpFrames
    /\ hp_called = FALSE
    /\ hp_out = NoNumber

\* the HP monitor when another component is under study
HpIdle ==
    /\ hp_frame = [grab |-> "empty", px |-> <<>>]
    /\ hp_called = FALSE
    /\ hp_out = NoNumber

CallGetHpPercent ==
    /\ ~hp_called
    /\ hp_called' = TRUE
    /\ hp_out' = get_hp_percent(hp_frame)
    /\ hp_frame' = hp_frame
    /\ UNCHANGED notHp

\* ======================================================================
\* battle.py : CaptureRateDetector.detect_capture_rate
\* ======================================================================

\* the characters tesseract may return (tessedit_char_whitelist=0123456789%)
DIGITS == <<"0", "1", "2", "3", "4", "5", "6", "7", "8", "9">>
OcrChars == {DIGITS[d] : d \in 1..Len(DIGITS)} \cup {"%"}

\* \d
is_digit(ch) == \E d \in 1..Len(DIGITS) : DIGITS[d] = ch

digit_value(ch) == (CHOOSE d \in 1..Len(DIGITS) : DIGITS[d] = ch) - 1

\* re.search(r'(\d+)', text): the first maximal run of digits, <<>> for no match
first_digit_run(text) ==
    LET at == {i \in 1..Len(text) : is_digit(text[i])}
    IN  IF at = {} THEN <<>>
        ELSE LET a == CHOOSE i \in at : \A k \in at : i <= k
                 runs == {j \in a..Len(text) : \A k \in a..j : is_digit(text[k])}
                 b == CHOOSE j \in runs : \A k \in runs : k <= j
             IN  SubSeq(text, a, b)

\* int(match.group(1))
RECURSIVE int_of_digits(_, _)
int_of_digits(run, acc) ==
    IF run = <<>> THEN acc
    ELSE int_of_digits(Tail(run), (10 * acc) + digit_value(Head(run)))

int_of(run) == int_of_digits(run, 0)

\* _estimate_from_visual: 90, 35 or 10 by the share of white pixels
estimate_from_visual(white) ==
    IF white = "above_40" THEN 90
    ELSE IF white = "above_25" THEN 35
    ELSE 10

\* detect_capture_rate on a grab: "raises" when anything in the try block
\* raises, "empty" when frame.size == 0; with OCR the text read, without it
\* the share of white pixels
detect_capture_rate(grab) ==
    IF grab.grab = "raises" THEN NoNumber
    ELSE IF grab.grab = "empty" THEN NoNumber
    ELSE IF grab.has_ocr
    THEN LET run == first_digit_run(grab.text)
         IN  IF run = <<>> THEN NoNumber
             ELSE IF 0 <= int_of(run) /\ int_of(run) <= MAX_RATE
                  THEN Some(int_of(run))
                  ELSE NoNumber
    ELSE Some(estimate_from_visual(grab.white))

\* the longest text studied
MaxTextLen == 3

OcrTexts == UNION {[1..n -> OcrChars] : n \in 0..MaxTextLen}

RateGrabs ==
    {[grab |-> g, has_ocr |-> FALSE, text |-> <<>>, white |-> "low"] :
        g \in {"raises", "empty"}}
    \cup {[grab |-> "ok", has_ocr |-> TRUE, text |-> t, white |-> "low"] :
            t \in OcrTexts}
    \cup {[grab |-> "ok", has_ocr |-> FALSE, text |-> <<>>, white |-> w] :
            w \in {"above_40", "above_25", "low"}}

RateInit ==
    /\ cr_in \in RateGrabs
    /\ cr_called = FALSE
    /\ cr_out = NoNumber

\* the capture-rate detector when another component is under study
RateIdle ==
    /\ cr_in = [grab |-> "empty", has_ocr |-> FALSE, text |-> <<>>, white |-> "low"]
    /\ cr_called = FALSE
    /\ cr_out = NoNumber

CallDetectCaptureRate ==
    /\ ~cr_called
    /\ cr_called' = TRUE
    /\ cr_out' = detect_capture_rate(cr_in)
    /\ cr_in' = cr_in
    /\ UNCHANGED notRate

\* ======================================================================
\* battle.py, utils.py : the eligibility policy applied to bounded arguments
\* ======================================================================

\* the minimum ratings a rule can hold: the ratings, the band, and two
\* strings a hand-written configuration file can hold
MinRatings == RATINGS \cup {"B+ and Below", "", "All"}

\* the rules: none for any rarity, or the same rule for every rarity
PolicyRules ==
    {r \in [has_rule : BOOLEAN, enabled : BOOLEAN, min_ip_rating : MinRatings] :
        ~r.has_rule => (~r.enabled /\ r.min_ip_rating = "A")}

\* the rarity and rating arguments: the known ones, None, the empty string
\* and a string that is in neither list
RarityArgs == RARITIES \cup {None, "", "Mythic"}
RatingArgs == RATINGS \cup {None, "", "Z"}

PolicyInputs ==
    /\ pol_call = "none"
    /\ pol_rule \in PolicyRules
    /\ pol_rarity \in RarityArgs
    /\ pol_rating \in RatingArgs
    /\ pol_out = FALSE

\* the policy when another component is under study
PolicyIdle ==
    /\ pol_call = "none"
    /\ pol_rule = [has_rule |-> FALSE, enabled |-> FALSE, min_ip_rating |-> "A"]
    /\ pol_rarity = None
    /\ pol_rating = None
    /\ pol_out = FALSE

\* Battle.is_eligible(rarity, ip_rating) under the rule
CallIsEligible ==
    /\ pol_call = "none"
    /\ pol_call' = "is_eligible"
    /\ pol_out' = is_eligible(pol_rule, pol_rarity, pol_rating)
    /\ UNCHANGED <<pol_rule, pol_rarity, pol_rating>>
    /\ UNCHANGED notPolicy

\* ip_rating_meets_minimum(found, minimum) with the rule's minimum
CallMeetsMinimum ==
    /\ pol_call = "none"
    /\ pol_call' = "meets"
    /\ pol_out' = ip_rating_meets_minimum(pol_rating, pol_rule.min_ip_rating)
    /\ UNCHANGED <<pol_rule, pol_rarity, pol_rating>>
    /\ UNCHANGED notPolicy

\* ======================================================================
\* battle.py : SkillManager called directly
\* ======================================================================

\* the skill numbers the calls are given: 1..12 and the nearest invalid ones
SkillArgs == (0 - 1)..(SKILL_COUNT + 1)

NoCall ==
    [op |-> "none", arg |-> 0, page_before |-> 1,
     visible_before |-> page_skills(1), done |-> TRUE, ret |-> FALSE,
     arrows |-> <<>>, slot |-> 0]

\* no SkillManager call has been made yet
SkillCallsInit ==
    /\ sk_last = NoCall
    /\ sk_prev = NoCall

\* the log of arrow clicks after a click on `arrow`: the page the click leads
\* to is recorded once the call has waited for the scroll
Clicked(log, arrow) ==
    Append(log, [arrow |-> arrow, page |-> 0, visible |-> <<>>])

\* the log once the page and the visible skills have been updated
Turned(log, page, visible) ==
    [log EXCEPT ![Len(log)] = [@ EXCEPT !.page = page, !.visible = visible]]

\* SkillManager.reset_to_page_1()
ResetToPage1 ==
    /\ enc_pc = "off"
    /\ sk_call = NoSkillCall
    /\ current_page' = reset_to_page_1(current_page)
    /\ visible_skills' = page_skills(current_page')
    /\ sk_prev' = sk_last
    /\ sk_last' = [op |-> "reset", arg |-> 0, page_before |-> current_page,
                   visible_before |-> visible_skills, done |-> TRUE,
                   ret |-> TRUE, arrows |-> <<>>, slot |-> 0]
    /\ UNCHANGED sk_call
    /\ UNCHANGED notSkill

\* SkillManager.navigate_to_skill(skill_num) is called: it returns at once,
\* or clicks the first arrow and waits for the scroll
NavigateToSkill ==
    /\ enc_pc = "off"
    /\ sk_call = NoSkillCall
    /\ \E skill_num \in SkillArgs :
        LET nav == navigate_to_skill(current_page, skill_num)
        IN  /\ sk_prev' = sk_last
            /\ sk_last' = [op |-> "navigate", arg |-> skill_num,
                           page_before |-> current_page,
                           visible_before |-> visible_skills,
                           done |-> nav.ret # "none",
                           ret |-> nav.ret = "True",
                           arrows |-> IF nav.ret # "none" THEN <<>>
                                      ELSE Clicked(<<>>, nav.arrow),
                           slot |-> 0]
            /\ sk_call' = IF nav.ret # "none" THEN NoSkillCall
                          ELSE [op |-> "navigate", skill |-> skill_num,
                                arrow |-> nav.arrow,
                                clicks_needed |-> nav.clicks_needed]
    /\ UNCHANGED <<current_page, visible_skills>>
    /\ UNCHANGED notSkill

\* SkillManager.use_skill(skill_num) is called: it returns False at once,
\* clicks the slot when the skill is on the current page, or clicks the
\* first arrow and waits for the scroll
UseSkill ==
    /\ enc_pc = "off"
    /\ sk_call = NoSkillCall
    /\ \E skill_num \in SkillArgs :
        LET nav == navigate_to_skill(current_page, skill_num)
            u   == use_skill(visible_skills, skill_num)
        IN  /\ sk_prev' = sk_last
            /\ sk_last' = [op |-> "use", arg |-> skill_num,
                           page_before |-> current_page,
                           visible_before |-> visible_skills,
                           done |-> nav.ret # "none",
                           ret |-> nav.ret = "True" /\ u.ok,
                           arrows |-> IF nav.ret # "none" THEN <<>>
                                      ELSE Clicked(<<>>, nav.arrow),
                           slot |-> IF nav.ret = "True" THEN u.slot ELSE 0]
            /\ sk_call' = IF nav.ret # "none" THEN NoSkillCall
                          ELSE [op |-> "use", skill |-> skill_num,
                                arrow |-> nav.arrow,
                                clicks_needed |-> nav.clicks_needed]
    /\ UNCHANGED <<current_page, visible_skills>>
    /\ UNCHANGED notSkill

\* the call in progress after "time.sleep(0.3)": the page and the visible
\* skills are updated; then the arrow is clicked again, or navigate_to_skill
\* returns True and use_skill goes on to its slot click
SkillCallStep ==
    /\ enc_pc = "off"
    /\ sk_call.arrow # "none"
    /\ LET page    == turn_page(current_page, sk_call.arrow)
           visible == page_skills(page)
           log     == Turned(sk_last.arrows, page, visible)
           u       == use_skill(visible, sk_call.skill)
       IN  /\ current_page' = page
           /\ visible_skills' = visible
           /\ IF sk_call.clicks_needed > 1
              THEN /\ sk_call' = [sk_call EXCEPT !.clicks_needed = @ - 1]
                   /\ sk_last' = [sk_last EXCEPT
                                     !.arrows = Clicked(log, sk_call.arrow)]
              ELSE /\ sk_call' = NoSkillCall
                   /\ sk_last' =
                        IF sk_call.op = "navigate"
                        THEN [sk_last EXCEPT !.arrows = log, !.done = TRUE,
                                             !.ret = TRUE]
                        ELSE [sk_last EXCEPT !.arrows = log, !.done = TRUE,
                                             !.ret = u.ok, !.slot = u.slot]
    /\ UNCHANGED sk_prev
    /\ UNCHANGED notSkill

\* ======================================================================
\* Specifications: each component on its own, the others at rest
\* ======================================================================

InitResolver ==
    /\ ResolverInputs
    /\ DetectorIdle
    /\ LoopIdle
    /\ EncounterIdle
    /\ HpIdle
    /\ RateIdle
    /\ PolicyIdle
    /\ SkillCallsInit

NextResolver ==
    \/ CallEstimate
    \/ CallGetMiscritInfo

SpecResolver == InitResolver /\ [][NextResolver]_vars

InitDetector ==
    /\ DetectorInit
    /\ ResolverIdle
    /\ LoopIdle
    /\ EncounterIdle
    /\ HpIdle
    /\ RateIdle
    /\ PolicyIdle
    /\ SkillCallsInit

NextDetector ==
    \/ DetectState
    \/ DetectStateNoTemplate
    \/ ForceState
    \/ Tick

SpecDetector == InitDetector /\ [][NextDetector]_vars

InitLoop ==
    /\ LoopInit
    /\ DetectorIdle
    /\ ResolverIdle
    /\ EncounterIdle
    /\ HpIdle
    /\ RateIdle
    /\ PolicyIdle
    /\ SkillCallsInit

NextLoop ==
    \/ Start
    \/ LoopTest
    \/ LoopIteration
    \/ LoopIterationRaises
    \/ Stop
    \/ LoopExit

SpecLoop == InitLoop /\ [][NextLoop]_vars

InitEncounter ==
    /\ EncounterInit
    /\ bm_other = NoCaller
    /\ ResolverIdle
    /\ DetectorIdle
    /\ LoopIdle
    /\ HpIdle
    /\ RateIdle
    /\ PolicyIdle
    /\ SkillCallsInit

NextEncounter ==
    \/ CheckAndHandleBattle
    \/ DetectBattle
    \/ BeginBattle
    \/ EncounterStart
    \/ EncounterReset
    \/ Measure
    \/ ChipStep
    \/ TurnPage
    \/ CaptureStep
    \/ CaptureCheck
    \/ CaptureOver
    \/ DefeatStep
    \/ WaitBattleEnd
    \/ ClickContinue
    \/ EncounterReturn
    \/ ManagerWait

SpecEncounter == InitEncounter /\ [][NextEncounter]_vars

\* ======================================================================
\* battle.py : BattleManager.check_and_handle_battle called by two threads
\* ======================================================================

\* the configuration the two threads run with: no rarity has a rule, so
\* every encounter is skipped and defeated with Skill 1 of page 1, and no
\* page is turned
ManagerConfig == [UsualConfig EXCEPT !.has_rule = FALSE]

\* The running thread is suspended and the other one resumes where it was
\* suspended: the locals change places, what the threads share (in_battle,
\* battle_count, stats, the skill manager's page) stays. The interpreter
\* switches threads where the lock is released: in the screen grabs, the
\* clicks, the sleeps and the log writes that end every step.
Preempt ==
    /\ bm_other.pc # "off"
    /\ bm_other' = [pc |-> enc_pc, enc |-> enc, enc_acts |-> enc_acts,
                    bm_last |-> bm_last, wt |-> wt, sk_call |-> sk_call]
    /\ enc_pc' = bm_other.pc
    /\ enc' = bm_other.enc
    /\ enc_acts' = bm_other.enc_acts
    /\ bm_last' = bm_other.bm_last
    /\ wt' = bm_other.wt
    /\ sk_call' = bm_other.sk_call
    /\ UNCHANGED <<enc_cfg, io_raises, in_battle, battle_count, stats,
                   current_page, visible_skills, since_return>>
    /\ UNCHANGED <<resolverVars, detectorVars, loopVars, hpVars, crVars,
                   polVars, skVars>>

InitManager ==
    /\ EncounterInit
    /\ enc_cfg = ManagerConfig
    /\ io_raises = FALSE
    /\ bm_other = IdleCaller
    /\ ResolverIdle
    /\ DetectorIdle
    /\ LoopIdle
    /\ HpIdle
    /\ RateIdle
    /\ PolicyIdle
    /\ SkillCallsInit

\* the steps of the thread that is running, and the switch to the other one
NextManager ==
    \/ CheckAndHandleBattle
    \/ DetectBattle
    \/ BeginBattle
    \/ EncounterStart
    \/ EncounterReset
    \/ Measure
    \/ DefeatStep
    \/ WaitBattleEnd
    \/ ClickContinue
    \/ EncounterReturn
    \/ ManagerWait
    \/ Preempt

SpecManager == InitManager /\ [][NextManager]_vars

\* handle_encounter has just been called by check_and_handle_battle, after
\* an is_in_battle() that returned True, with the skill manager on any page;
\* its waits are followed poll by poll
HandleEncounterCalled ==
    /\ \/ enc_cfg \in EncConfigs /\ io_raises = FALSE
       \/ enc_cfg = UsualConfig /\ io_raises = TRUE
    /\ enc_pc = "start"
    /\ in_battle = begin_battle(0).in_battle
    /\ battle_count = begin_battle(0).battle_count
    /\ stats = ZeroStats
    /\ current_page \in 1..(SKILL_COUNT \div PAGE_SIZE)
    /\ visible_skills = page_skills(current_page)
    /\ enc = NoEncounter
    /\ enc_acts = <<>>
    /\ \E found \in BOOLEAN, blue \in BlueReadings :
        /\ is_in_battle(enc_cfg.flee_template, found, blue)
        /\ bm_last = [called |-> TRUE, found |-> found, blue |-> blue,
                      result |-> TRUE]
    /\ since_return = NoNumber
    /\ wt = NoWait
    /\ sk_call = NoSkillCall
    /\ bm_other = NoCaller

InitTermination ==
    /\ HandleEncounterCalled
    /\ SkillCallsInit
    /\ ResolverIdle
    /\ DetectorIdle
    /\ LoopIdle
    /\ HpIdle
    /\ RateIdle
    /\ PolicyIdle

\* the steps of one handle_encounter call
NextTermination ==
    \/ EncounterStart
    \/ EncounterReset
    \/ TurnPoll
    \/ Measure
    \/ ChipStep
    \/ TurnPage
    \/ CaptureStep
    \/ CaptureCheck
    \/ CaptureOver
    \/ DefeatStep
    \/ BattleEndPoll
    \/ WaitBattleEnd
    \/ ClickContinue

\* handle_encounter runs in one thread that is never suspended for ever:
\* whenever it has a next step it takes it
SpecTermination ==
    InitTermination /\ [][NextTermination]_vars /\ WF_vars(NextTermination)

InitHp ==
    /\ HpInit
    /\ RateIdle
    /\ ResolverIdle
    /\ DetectorIdle
    /\ LoopIdle
    /\ EncounterIdle
    /\ PolicyIdle
    /\ SkillCallsInit

NextHp ==
    \/ CallGetHpPercent

SpecHp == InitHp /\ [][NextHp]_vars

InitRate ==
    /\ RateInit
    /\ ResolverIdle
    /\ DetectorIdle
    /\ LoopIdle
    /\ EncounterIdle
    /\ HpIdle
    /\ PolicyIdle
    /\ SkillCallsInit

NextRate ==
    \/ CallDetectCaptureRate

SpecRate == InitRate /\ [][NextRate]_vars

InitPolicy ==
    /\ PolicyInputs
    /\ ResolverIdle
    /\ DetectorIdle
    /\ LoopIdle
    /\ EncounterIdle
    /\ HpIdle
    /\ RateIdle
    /\ SkillCallsInit

NextPolicy ==
    \/ CallIsEligible
    \/ CallMeetsMinimum

SpecPolicy == InitPolicy /\ [][NextPolicy]_vars

InitSkill ==
    /\ SkillCallsInit
    /\ EncounterIdle
    /\ ResolverIdle
    /\ DetectorIdle
    /\ LoopIdle
    /\ HpIdle
    /\ RateIdle
    /\ PolicyIdle

NextSkill ==
    \/ ResetToPage1
    \/ NavigateToSkill
    \/ UseSkill
    \/ SkillCallStep

SpecSkill == InitSkill /\ [][NextSkill]_vars

\* ======================================================================
\* Properties of the resolver (checked under SpecResolver)
\* ======================================================================

\* the allowed set the last estimate call was given
AllowedOfCall == IF rs_allowed = DefaultRarities THEN RARITIES ELSE rs_allowed

\* |expected - P| of a table cell
CellDistance(rating, rarity, P) ==
    Abs(CAPTURE_RATE_TABLE_100HP[rating][rarity] - P)

\* no allowed cell is within the tolerance of P (also when no cell is allowed)
NoCellWithinTolerance(P, allowed) ==
    \A rating \in RATINGS, rarity \in allowed :
        CellDistance(rating, rarity, P) > TOLERANCE

\* C9: whenever estimate_ip_rating_from_capture_rate(P, allowed) returns a
\* match, the match is a cell of the 100%-HP table whose rarity is allowed and
\* whose distance |expected - P| is the minimum over all allowed cells; for
\* P = 31 and allowed = {Common} the result is (A, Common), at distance 0.
C9_NearestAllowedCell ==
    rs_call = "estimate" =>
        /\ rs_out # NoMatch =>
             /\ rs_out[1] \in RATINGS
             /\ rs_out[2] \in AllowedOfCall
             /\ \A rating \in RATINGS, rarity \in AllowedOfCall :
                    CellDistance(rs_out[1], rs_out[2], Val(rs_P))
                        <= CellDistance(rating, rarity, Val(rs_P))
        /\ (Val(rs_P) = 31 /\ rs_allowed = {"Common"}) =>
             /\ rs_out = <<"A", "Common">>
             /\ CellDistance("A", "Common", Val(rs_P)) = 0

\* C9 witness: the call with P = 31 and allowed = {Common} has returned (A, Common)
C9_Witness ==
    /\ rs_call = "estimate"
    /\ rs_P = Some(31)
    /\ rs_allowed = {"Common"}
    /\ rs_out = <<"A", "Common">>

\* C10: estimate_ip_rating_from_capture_rate returns (None, None) exactly when
\* no allowed cell is within the tolerance of 3 (or no cell is allowed);
\* otherwise rating and rarity are both known.  It never returns exactly one
\* of the two as None, and get_miscrit_info keeps this: its rating and rarity
\* are both None exactly when the rate is unread or no cell is within tolerance.
C10_UnknownIffOutOfTolerance ==
    /\ rs_call = "estimate" =>
         /\ (rs_out = NoMatch) <=> NoCellWithinTolerance(Val(rs_P), AllowedOfCall)
         /\ (rs_out[1] = None) <=> (rs_out[2] = None)
         /\ rs_out # NoMatch => rs_out[1] \in RATINGS /\ rs_out[2] \in RARITIES
    /\ rs_call = "info" =>
         /\ (rs_info[2] = None) <=> (rs_info[3] = None)
         /\ (rs_info[2] = None) <=>
                IF rs_P = NoNumber THEN TRUE
                ELSE NoCellWithinTolerance(Val(rs_P), RARITIES)
         /\ rs_info[1] = rs_P

\* C10 witness: a readable rate with allowed cells, all farther than the
\* tolerance, has resolved to (None, None)
C10_Witness ==
    /\ rs_call = "estimate"
    /\ rs_P = Some(50)
    /\ rs_allowed = DefaultRarities
    /\ rs_out = NoMatch

\* ======================================================================
\* Properties of the detector (checked under SpecDetector)
\* ======================================================================

\* the most recent detect_state call of the history
LastCall == det_log[Len(det_log)]

\* C3: with required_consecutive = 2, a single raw detection that differs from
\* the committed state, between two detections equal to the committed state,
\* never changes current_state.
C3_SingleFrameDiscarded ==
    (/\ Len(det_log) = 3
     /\ det_log[1].detected = det_log[1].before
     /\ det_log[2].detected # None
     /\ det_log[2].detected # det_log[1].before
     /\ det_log[3].detected = det_log[1].before)
    => /\ det_log[1].after = det_log[1].before
       /\ det_log[2].after = det_log[1].before
       /\ det_log[3].after = det_log[1].before
       /\ current_state = det_log[1].before

\* C3 witness: in battle, the frames found / not found / found were analysed
C3_Witness ==
    /\ Len(det_log) = 3
    /\ det_log[1].before = "IN_BATTLE"
    /\ det_log[1].found /\ ~det_log[2].found /\ det_log[3].found
    /\ det_log[2].detected = "SEARCHING"

\* C4 (as claimed): required_consecutive = 2 consecutive identical raw
\* detections that differ from the committed state commit the change: after the
\* second such call current_state is the detected state and state_entered_time
\* is the time of that call.
C4_TwoDetectionsCommit ==
    (/\ Len(det_log) >= 2
     /\ LastCall.detected # None
     /\ det_log[Len(det_log) - 1].detected = LastCall.detected
     /\ det_log[Len(det_log) - 1].before # LastCall.detected
     /\ det_log[Len(det_log) - 1].after = det_log[Len(det_log) - 1].before)
    => /\ current_state = LastCall.detected
       /\ state_entered_time = LastCall.t

\* C5 (as claimed): on a frame in which the run button is not found,
\* detect_state never returns IN_BATTLE.
C5_NoAnchorNeverInBattle ==
    (Len(det_log) >= 1 /\ ~LastCall.found) => LastCall.ret # "IN_BATTLE"

\* C5 (amended): a frame in which the run button is not found is never
\* classified IN_BATTLE, and detect_state returns IN_BATTLE for it only when
\* current_state was IN_BATTLE already before the call.
C5_NoAnchorNeverEntersBattle ==
    (Len(det_log) >= 1 /\ ~LastCall.found) =>
        /\ LastCall.detected \in {"SEARCHING", None}
        /\ LastCall.ret = "IN_BATTLE" => LastCall.before = "IN_BATTLE"
        /\ LastCall.ret = current_state

\* C5 witness: a frame without the run button was analysed with a template
\* loaded, while the detector had been put in IN_BATTLE
C5_Witness ==
    /\ Len(det_log) >= 1
    /\ has_template
    /\ ~LastCall.found
    /\ LastCall.before = "IN_BATTLE"
    /\ LastCall.ret = "IN_BATTLE"

\* ======================================================================
\* Properties of the loop (checked under SpecLoop)
\* ======================================================================

\* the last iteration read the battle readiness and the reading disagreed
\* with the mode the loop was in
LastReadingDisagrees ==
    /\ ReadingMade(lp_last)
    /\ lp_last.ready # (lp_last.mode_before = "BATTLE")

\* the last reading repeats the reading made before it
ConfirmedReading ==
    /\ Len(lp_readings) = 2
    /\ lp_readings[1] = lp_readings[2]

\* C6: the loop switches from SEARCH to BATTLE only on an iteration whose
\* frame contains the run button; the tile and OCR signals only restrict
\* readiness further, so no reading is ready without the run button.
C6_BattleOnlyWithAnchor ==
    /\ (lp_last.mode_before = "SEARCH" /\ lp_last.mode_after = "BATTLE")
           => lp_last.frame_run /\ lp_last.battle_checked /\ lp_last.ready
    /\ lp_last.ready => lp_last.frame_run
    /\ current_mode = lp_last.mode_after

\* C6 witness: an iteration has switched the loop from SEARCH to BATTLE
C6_Witness ==
    /\ lp_last.mode_before = "SEARCH"
    /\ lp_last.mode_after = "BATTLE"
    /\ current_mode = "BATTLE"
    /\ lp_last.frame_run

\* C8 (as claimed): a single readiness reading that disagrees with the current
\* mode (one not preceded by the same disagreeing reading) is discarded: it
\* neither switches the mode nor starts the post-battle cooldown.
C8_SingleReadingDiscarded ==
    (/\ LastReadingDisagrees
     /\ ~ConfirmedReading)
    => /\ lp_last.mode_after = lp_last.mode_before
       /\ ~lp_last.cooldown

\* ======================================================================
\* Properties of the encounter controller
\* ======================================================================

\* how many times the action a was issued in this encounter
Issued(a) == Cardinality({i \in 1..Len(enc_acts) : enc_acts[i] = a})

\* the measurement of this encounter left the rating or the rarity unknown
MeasuredUnknown ==
    /\ enc_pc \in {"chip", "capture", "capture_check", "capture_over",
                   "defeat", "wait_end", "continue", "return"}
    /\ Falsy(enc.rarity) \/ Falsy(enc.ip_rating)

\* C1: handle_encounter presses the capture key only in an encounter whose
\* measured rarity and rating are both known and for which is_eligible is
\* true; when either is unknown the controller issues defeat attacks and the
\* Continue click only, and when it returns True the Continue click is the
\* last thing it did.
C1_CaptureOnlyWhenEligible ==
    /\ Issued("capture") > 0 =>
          /\ ~Falsy(enc.rarity)
          /\ ~Falsy(enc.ip_rating)
          /\ is_eligible(enc_cfg, enc.rarity, enc.ip_rating)
    /\ MeasuredUnknown =>
          /\ \A i \in 1..Len(enc_acts) : enc_acts[i] \in {"defeat", "continue"}
          /\ (enc_pc = "return" /\ enc.result = "True") =>
                /\ Len(enc_acts) > 0
                /\ enc_acts[Len(enc_acts)] = "continue"
                /\ \A i \in 1..(Len(enc_acts) - 1) : enc_acts[i] = "defeat"

\* an eligible encounter in which the capture key was pressed has returned
C1_Witness ==
    /\ enc_pc = "return"
    /\ Issued("capture") > 0
    /\ is_eligible(enc_cfg, enc.rarity, enc.ip_rating)
    /\ enc.result = "True"

\* C2: in one encounter chip_hp_safely uses the damage skill at most 20 times
\* and attempt_capture presses the capture key at most max_attempts times,
\* whatever the HP, battle-end and turn readings are.
C2_LoopsWithinCaps ==
    /\ Issued("damage") <= CHIP_MAX_ATTEMPTS
    /\ Issued("capture") <= enc_cfg.attempts

\* both loops ran to their caps: no reading ever ended them
C2_Witness ==
    /\ Issued("damage") = CHIP_MAX_ATTEMPTS
    /\ Issued("capture") = enc_cfg.attempts
    /\ ~enc.success
    /\ enc_pc = "defeat"

\* C7: is_in_battle returns true only when the flee template is loaded and
\* matches the screen.
C7_InBattleOnlyWithAnchor ==
    (bm_last.called /\ bm_last.result) =>
        (enc_cfg.flee_template /\ bm_last.found)

\* C21: in chip_hp_safely every use of the damage skill comes after a turn
\* wait that saw the turn indicator: no attack follows a wait that timed out.
C21_AttackOnlyOnConfirmedTurn ==
    [][(enc_pc = "chip" /\ enc_acts' = Append(enc_acts, "damage"))
           => enc.turn = "ready"]_vars

\* the actions that follow the last capture key of this encounter
AfterLastCapture ==
    LET n == CHOOSE j \in 0..Len(enc_acts) :
                 /\ j > 0 => enc_acts[j] = "capture"
                 /\ \A m \in (j + 1)..Len(enc_acts) : enc_acts[m] # "capture"
    IN  SubSeq(enc_acts, n + 1, Len(enc_acts))

\* attempt_capture returned True: captures_successful went up by one and the
\* failed attempts were not counted
CaptureAborted ==
    /\ Issued("capture") >= 1
    /\ stats.captures_successful = enc.stats_before.captures_successful + 1
    /\ stats.captures_attempted = enc.stats_before.captures_attempted

\* C22: attempt_capture ends at the first attempt after which the end of
\* battle is detected, adds exactly one to captures_successful, and
\* handle_encounter then uses no defeat skill in that encounter.
C22_NoDefeatAfterCapture ==
    enc.success => (CaptureAborted /\ Issued("defeat") = 0)

\* C23: a run of handle_encounter in which nothing raised clicks Continue
\* exactly once, as its last action, on the unknown, the skip and the
\* capture paths (capture succeeded, or exhausted and then defeated), and
\* returns True.
C23_ContinueOnceAtTheEnd ==
    ~enc.emergency =>
        /\ enc_pc = "return" =>
              /\ enc.path \in {"unknown", "skip", "capture"}
              /\ Issued("continue") = 1
              /\ enc_acts[Len(enc_acts)] = "continue"
              /\ enc.result = "True"
        /\ enc_pc # "return" => Issued("continue") = 0

\* every capture attempt failed, the Miscrit was defeated, Continue clicked
C23_Witness ==
    /\ enc_pc = "return"
    /\ ~enc.emergency
    /\ enc.path = "capture"
    /\ ~enc.success
    /\ Issued("capture") = enc_cfg.attempts
    /\ Issued("defeat") >= 1
    /\ enc_acts[Len(enc_acts)] = "continue"

\* handle_encounter has returned after an exception was raised in it
ReturnedAfterFault == enc_pc = "return" /\ enc.emergency

\* the calls the emergency cleanup has made, place by place: defeat_miscrit
\* alone while it runs, and True is returned only when nothing raised
CleanupInOrder ==
    /\ enc.emergency =>
          /\ enc.cleanup \in {<<"defeat_miscrit">>,
                              <<"defeat_miscrit", "click_continue">>}
          /\ enc_pc \in {"defeat", "wait_end", "continue"} =>
                enc.cleanup = <<"defeat_miscrit">>
    /\ ~enc.emergency => enc.cleanup = <<>>
    /\ enc_pc = "return" =>
          enc.result = (IF enc.emergency THEN "False" ELSE "True")
    /\ (ReturnedAfterFault /\ Issued("continue") = 1) =>
          enc.cleanup = <<"defeat_miscrit", "click_continue">>

\* the emergency defeat_miscrit raises in this step
CleanupDefeatRaises ==
    enc.emergency /\ enc'.defeat_raised = enc.defeat_raised + 1

\* the emergency defeat_miscrit returns in this step
CleanupDefeatReturns ==
    enc.emergency /\ enc'.defeat_returned = enc.defeat_returned + 1

\* the emergency cleanup calls click_continue in this step
CleanupContinues ==
    /\ enc.emergency
    /\ enc.cleanup = <<"defeat_miscrit">>
    /\ enc'.cleanup = <<"defeat_miscrit", "click_continue">>

\* C24 as amended: an exception raised at any step of handle_encounter is
\* caught there: the cleanup calls defeat_miscrit once and click_continue
\* once after it exactly when that defeat_miscrit call returned; when the
\* call raises, the cleanup ends at once without click_continue;
\* handle_encounter returns False whether or not the cleanup itself raised,
\* and returns True only when nothing raised.
C24_FaultCaughtInEncounter ==
    /\ []CleanupInOrder
    /\ [][/\ CleanupDefeatRaises =>
               /\ enc_pc = "defeat"
               /\ enc_pc' = "return"
               /\ enc'.cleanup = <<"defeat_miscrit">>
               /\ enc'.result = "False"
          /\ CleanupDefeatReturns =>
               /\ enc_pc = "wait_end"
               /\ enc_pc' = "continue"
               /\ enc'.cleanup = <<"defeat_miscrit">>
          /\ (enc.emergency /\ enc_pc = "continue" /\ enc_pc' # "continue") =>
               /\ CleanupContinues
               /\ enc_pc' = "return"
               /\ enc'.result = "False"
          /\ (enc.emergency /\ enc_pc # "return"
                 /\ enc'.cleanup # enc.cleanup) =>
               (enc_pc = "continue" /\ CleanupContinues)
          /\ (enc.emergency /\ enc_pc # "continue" /\ enc_pc' = "continue") =>
               CleanupDefeatReturns
         ]_vars

\* C24: after an exception in handle_encounter the controller attempts
\* exactly one emergency defeat_miscrit followed by one click_continue and
\* returns False.
C24_CleanupDefeatsAndContinues ==
    ReturnedAfterFault =>
        /\ enc.cleanup = <<"defeat_miscrit", "click_continue">>
        /\ enc.result = "False"

\* the capture key raised, the cleanup defeated the Miscrit and clicked
\* Continue, and handle_encounter returned False
C24_Witness ==
    /\ ReturnedAfterFault
    /\ enc.result = "False"
    /\ enc.cleanup = <<"defeat_miscrit", "click_continue">>
    /\ Issued("defeat") >= 1
    /\ Issued("continue") = 1

\* what this encounter has added to each counter of Battle.stats
StatsDelta == [f \in DOMAIN stats |-> stats[f] - enc.stats_before[f]]

\* what an encounter that returns True adds to the counters, path by path:
\* unknown, skipped, captured, capture exhausted and defeated
HandledDeltas ==
    {[ZeroStats EXCEPT !.total_battles = 1, !.defeated = 1],
     [ZeroStats EXCEPT !.total_battles = 1, !.skipped = 1, !.defeated = 1],
     [ZeroStats EXCEPT !.total_battles = 1, !.captures_successful = 1],
     [ZeroStats EXCEPT !.total_battles = 1, !.defeated = 1,
                       !.captures_attempted = enc_cfg.attempts]}

\* every encounter that returned True left one of the deltas above
HandledDeltasAreRight ==
    (enc_pc = "return" /\ ~enc.emergency) => StatsDelta \in HandledDeltas

\* C25: every encounter is counted, and an encounter in which a fault
\* occurred is marked failed in the statistics: what it adds to Battle.stats
\* differs from what every successfully handled encounter adds.
C25_FaultedEncounterMarkedInStats ==
    /\ enc_pc = "return" => StatsDelta.total_battles = 1
    /\ HandledDeltasAreRight
    /\ ReturnedAfterFault => StatsDelta \notin HandledDeltas

\* C26: when use_skill cannot invoke the configured damage skill, the
\* controller leaves the chip loop and goes on to defeat the Miscrit: it
\* does not attempt a capture.
C26_UnusableSkillSkipsCapture ==
    enc.chipped = "skill_failed" =>
        /\ enc_pc \in {"defeat", "wait_end", "continue", "return"}
        /\ Issued("capture") = 0

\* C27: an input call that raises inside an encounter is fatal: the
\* exception leaves handle_encounter and check_and_handle_battle, so the
\* encounter never returns to the manager and the manager never goes back
\* to polling for battles.
C27_InputLossHaltsSession ==
    [][(enc.emergency /\ enc_pc = "return")
           => ~(enc_pc' = "idle" /\ in_battle' = FALSE)]_vars

\* C28: after an encounter has returned, handle_encounter is not invoked
\* again before the configured cooldown has passed: a battle detected
\* earlier than that starts no encounter.
C28_CooldownBetweenEncounters ==
    (enc_pc = "start" /\ since_return # NoNumber) =>
        Val(since_return) >= cooldown_default

\* a thread at pc is inside handle_encounter
InHandleEncounter(pc) == pc \notin {"off", "idle", "tested", "detected"}

\* the running thread, and the suspended one, is inside handle_encounter
Handling == InHandleEncounter(enc_pc)
OtherHandling == InHandleEncounter(bm_other.pc)

\* in_battle is set exactly while a handle_encounter call runs, and no two
\* calls run at once
OneEncounterAtATime ==
    /\ in_battle <=> (Handling \/ OtherHandling)
    /\ ~(Handling /\ OtherHandling)

\* the running thread goes on (the step is not a switch of threads)
SameThread == bm_other' = bm_other

\* handle_encounter is invoked in this step
Invoked == SameThread /\ enc_pc = "detected" /\ enc_pc' = "start"

\* check_and_handle_battle returns from handle_encounter in this step
Returned == SameThread /\ enc_pc = "return" /\ enc_pc' = "idle"

C30_EncounterTerminates == <>(enc_pc = "return")

\* the call returned although the turn indicator, the HP threshold and the
\* end of the battle were never seen: every wait timed out and every loop
\* ran to its cap
C30_Witness ==
    /\ enc_pc = "return"
    /\ ~enc.emergency
    /\ enc.turn = "none"
    /\ Issued("damage") = CHIP_MAX_ATTEMPTS
    /\ Issued("capture") = enc_cfg.attempts
    /\ Issued("defeat") = QUICK_DEFEAT_ATTACKS

\* ======================================================================
\* Properties of the HP monitor (checked under SpecHp)
\* ======================================================================

\* the grab has no pixel in the green, yellow or red band
NoAlivePixel(frame) ==
    \A r \in 1..Len(frame.px) : \A c \in 1..Len(frame.px[r]) :
        ~hp_mask(frame.px[r][c])

\* C11: get_hp_percent returns None, never a number, when the HP-bar region
\* has no pixel in the green, yellow or red band; a number it returns lies
\* in [0, 100].
C11_NoPixelIsUnknown ==
    hp_called =>
        /\ NoAlivePixel(hp_frame) => hp_out = NoNumber
        /\ hp_out # NoNumber =>
              /\ Val(hp_out)[2] > 0
              /\ 0 <= Val(hp_out)[1]
              /\ Val(hp_out)[1] <= 100 * Val(hp_out)[2]

\* a grabbed region of dull and off-band pixels was read as unknown
C11_Witness ==
    /\ hp_called
    /\ hp_frame.grab = "ok"
    /\ NoAlivePixel(hp_frame)
    /\ hp_out = NoNumber

\* ======================================================================
\* Properties of the eligibility policy (checked under SpecPolicy)
\* ======================================================================

\* found is the same tier as minimum or a stronger one: it stands at the same
\* place or earlier in the strongest-to-weakest list
SameOrStronger(found, minimum) ==
    \E i, j \in 1..Len(IP_RATINGS_ORDER) :
        /\ IP_RATINGS_ORDER[i] = found
        /\ IP_RATINGS_ORDER[j] = minimum
        /\ i <= j

\* the ratings that are B+ or lower
BPlusAndLower == {r \in RATINGS : SameOrStronger("B+", r)}

\* the rule the configuration holds for the rarity is enabled
RuleEnabled ==
    pol_rule.has_rule /\ pol_rarity \in RARITIES /\ pol_rule.enabled

\* meetsThreshold(rating, rule.min_ip_rating)
MeetsThreshold ==
    IF pol_rule.min_ip_rating = "B+ and Below"
    THEN pol_rating \in BPlusAndLower
    ELSE SameOrStronger(pol_rating, pol_rule.min_ip_rating)

\* C12: is_eligible is false for a rarity whose rule is disabled or missing,
\* whatever the rating (S+ included) and the configured minimum.
C12_DisabledNeverEligible ==
    (pol_call = "is_eligible" /\ ~RuleEnabled) => ~pol_out

\* an S+ of a rarity whose rule is present but disabled was rejected
C12_Witness ==
    /\ pol_call = "is_eligible"
    /\ pol_rule.has_rule /\ ~pol_rule.enabled
    /\ pol_rarity \in RARITIES
    /\ pol_rating = "S+"
    /\ ~pol_out

\* C13: is_eligible is false whenever the rarity is unknown or the rating is
\* None, empty or not in IP_RATINGS_ORDER, for every rule.
C13_UnknownNeverEligible ==
    (/\ pol_call = "is_eligible"
     /\ \/ Falsy(pol_rarity)
        \/ Falsy(pol_rating)
        \/ pol_rating \notin RATINGS) => ~pol_out

\* C14: for every rarity, rating and rule, is_eligible equals: the rule is
\* enabled, and the rating is known, and the rating meets the threshold (the
\* band when 'B+ and Below' is configured, the order otherwise).
C14_EligibleIsConjunctionForEveryRule ==
    pol_call = "is_eligible" =>
        (pol_out <=> (RuleEnabled /\ pol_rating \in RATINGS /\ MeetsThreshold))

\* C15: for found and minimum both in IP_RATINGS_ORDER,
\* ip_rating_meets_minimum is true iff found is the same tier as minimum or a
\* stronger one; it is false when either argument is empty.
C15_MeetsMinimumIsOrder ==
    pol_call = "meets" =>
        /\ (pol_rating \in RATINGS /\ pol_rule.min_ip_rating \in RATINGS) =>
              (pol_out <=> SameOrStronger(pol_rating, pol_rule.min_ip_rating))
        /\ (Falsy(pol_rating) \/ Falsy(pol_rule.min_ip_rating)) => ~pol_out
        /\ (pol_rule.min_ip_rating = "A" /\ pol_rating \in {"S+", "A+"}) => pol_out
        /\ (pol_rule.min_ip_rating = "S" /\ pol_rating = "S") => pol_out
        /\ (pol_rule.min_ip_rating = "A" /\ pol_rating = "B+") => ~pol_out

\* (A+, A) was accepted
C15_Witness ==
    /\ pol_call = "meets"
    /\ pol_rating = "A+"
    /\ pol_rule.min_ip_rating = "A"
    /\ pol_out

\* C16: with minimum 'B+ and Below', ip_rating_meets_minimum accepts exactly
\* the ratings that are B+ or lower (F- included), which is also the band
\* is_eligible applies.
C16_BandIsBPlusAndLower ==
    (/\ pol_call = "meets"
     /\ pol_rule.min_ip_rating = "B+ and Below"
     /\ pol_rating \in RATINGS) =>
        /\ pol_out <=> pol_rating \in BPlusAndLower
        /\ pol_out <=> pol_rating \in BATTLE_BELOW_BAND

\* ======================================================================
\* Properties of the skill manager (checked under SpecSkill)
\* ======================================================================

\* 1 <= t <= 12
ValidSkill(t) == 1 <= t /\ t <= 12

\* page(t) = ceil(t / 4)
PageOf(t) == (t + 3) \div 4

\* the 4 skills [4(p-1)+1 .. 4p] of page p
SkillsOfPage(p) == <<4 * (p - 1) + 1, 4 * (p - 1) + 2, 4 * (p - 1) + 3, 4 * p>>

\* the last call was navigate_to_skill or use_skill
LastNavigates == sk_last.op \in {"navigate", "use"}

\* C17: navigate_to_skill(t) with 1 <= t <= 12 issues exactly
\* |page(t) - current_page| arrow clicks, all right when the target page is
\* higher and all left when it is lower; each click moves one page and is
\* followed by the update of visible_skills before the next click; from
\* page 1, t = 12 takes exactly 2 right clicks and leaves skill 12 at slot 4.
\* (While the call is in progress it has issued at most that many clicks;
\* the counts and the final page are those of the call once it has returned.)
C17_NavigationClicks ==
    (sk_last.op = "navigate" /\ ValidSkill(sk_last.arg)) =>
        LET p0  == sk_last.page_before
            tp  == PageOf(sk_last.arg)
            log == sk_last.arrows
        IN  /\ Len(log) <= Abs(tp - p0)
            /\ \A i \in 1..Len(log) :
                  /\ log[i].arrow = IF tp > p0 THEN "right" ELSE "left"
                  /\ (i < Len(log) \/ sk_last.done) => log[i].page # 0
                  /\ log[i].page # 0 =>
                        /\ log[i].page = IF tp > p0 THEN p0 + i ELSE p0 - i
                        /\ log[i].visible = SkillsOfPage(log[i].page)
            /\ sk_last.done =>
                  /\ sk_last.ret
                  /\ Len(log) = Abs(tp - p0)
                  /\ current_page = tp
                  /\ visible_skills = SkillsOfPage(tp)
                  /\ (p0 = 1 /\ sk_last.arg = 12) =>
                        /\ Len(log) = 2
                        /\ log[1].arrow = "right" /\ log[2].arrow = "right"
                        /\ visible_skills[4] = 12

\* navigate_to_skill(12) was called on page 1, clicked twice and returned
C17_Witness ==
    /\ sk_last.op = "navigate"
    /\ sk_last.arg = 12
    /\ sk_last.page_before = 1
    /\ sk_last.done
    /\ Len(sk_last.arrows) = 2
    /\ current_page = 3

\* C18: a navigate_to_skill(t) or use_skill(t) that comes right after a
\* navigate_to_skill(t) or use_skill(t) issues no arrow click, and the
\* second navigate_to_skill leaves current_page and visible_skills as they
\* were.
C18_NavigationIdempotent ==
    (/\ sk_prev.op \in {"navigate", "use"}
     /\ LastNavigates
     /\ sk_last.arg = sk_prev.arg) =>
        /\ sk_last.arrows = <<>>
        /\ sk_last.op = "navigate" =>
              /\ current_page = sk_last.page_before
              /\ visible_skills = sk_last.visible_before

\* use_skill(12) clicked twice from page 1, then navigate_to_skill(12)
\* clicked nothing
C18_Witness ==
    /\ sk_prev.op = "use" /\ sk_prev.arg = 12
    /\ Len(sk_prev.arrows) = 2
    /\ sk_prev.done
    /\ sk_last.op = "navigate" /\ sk_last.arg = 12
    /\ sk_last.done
    /\ sk_last.arrows = <<>>

\* C19: after any sequence of calls current_page is 1, 2 or 3 and
\* visible_skills is the 4 skills of that page; a call with a skill number
\* outside 1..12 returns false, clicks nothing and changes neither.
C19_PageAndVisibleInvariant ==
    /\ current_page \in 1..3
    /\ visible_skills = SkillsOfPage(current_page)
    /\ (LastNavigates /\ ~ValidSkill(sk_last.arg)) =>
          /\ sk_last.done
          /\ ~sk_last.ret
          /\ sk_last.arrows = <<>>
          /\ sk_last.slot = 0
          /\ current_page = sk_last.page_before
          /\ visible_skills = sk_last.visible_before

\* use_skill(13) was refused on page 3
C19_Witness ==
    /\ sk_last.op = "use"
    /\ sk_last.arg = 13
    /\ sk_last.page_before = 3
    /\ ~sk_last.ret
    /\ current_page = 3

\* C20: use_skill(t) with 1 <= t <= 12 makes page(t) = ceil(t / 4) the
\* current page, clicks the slot ((t - 1) mod 4) + 1 once and returns true;
\* no slot is clicked before the call has reached that page.
C20_UseSkillSlot ==
    /\ (sk_last.op = "use" /\ ~sk_last.done) => sk_last.slot = 0
    /\ (sk_last.op = "use" /\ ValidSkill(sk_last.arg) /\ sk_last.done) =>
        /\ sk_last.ret
        /\ current_page = PageOf(sk_last.arg)
        /\ visible_skills[sk_last.slot] = sk_last.arg
        /\ sk_last.slot = ((sk_last.arg - 1) % 4) + 1

\* use_skill(7) went from page 1 to page 2 and clicked slot 3
C20_Witness ==
    /\ sk_last.op = "use"
    /\ sk_last.arg = 7
    /\ sk_last.page_before = 1
    /\ sk_last.slot = 3
    /\ sk_last.done
    /\ sk_last.ret

\* ======================================================================
\* Properties of Bot.stop and of the SEARCH branch (checked under SpecLoop)
\* ======================================================================

\* what an iteration of _loop writes
IterationEffects ==
    <<lp_last, current_mode, last_spot_check_time, last_battle_check_time>>

\* C31: the stop signal is read once per iteration, at the while test.
\* Once stop() has set running to false, the loop test never lets another
\* iteration begin: the iteration in progress (if any) runs to its end,
\* nothing is captured, clicked or checked at the loop test afterwards,
\* the flag stays false, and the only step left is the exit of the loop.
C31_StopEndsLoopAtBoundary ==
    [][/\ (lp_pc # "iter") => UNCHANGED IterationEffects
       /\ (~running /\ lp_pc = "loop") => lp_pc' \in {"loop", "stopped"}
       /\ (~running /\ lp_pc = "iter") => lp_pc' \in {"iter", "loop"}
       /\ (~running /\ lp_pc # "init") => ~running'
       /\ (lp_pc = "stopped") => lp_pc' = "stopped"]_vars

\* stop() arrived during an iteration that checked the spot; the iteration
\* finished and the loop ended
C31_Witness ==
    /\ lp_pc = "stopped"
    /\ ~running
    /\ lp_last.stopped_during
    /\ lp_last.spot_checked

\* ======================================================================
\* Properties of the capture-rate reader (checked under SpecRate)
\* ======================================================================

\* the text was read and its first run of digits is a number above 100
ReadAbove100 ==
    /\ cr_called
    /\ cr_in.grab = "ok"
    /\ cr_in.has_ocr
    /\ first_digit_run(cr_in.text) # <<>>
    /\ int_of(first_digit_run(cr_in.text)) > MAX_RATE

\* C32: a reading whose leading integer is greater than 100 yields 100, and
\* every value detect_capture_rate returns lies in [0, 100].
C32_RateClampedTo100 ==
    /\ ReadAbove100 => cr_out = Some(MAX_RATE)
    /\ (cr_called /\ cr_out # NoNumber) => (0 <= Val(cr_out) /\ Val(cr_out) <= MAX_RATE)

\* ======================================================================
\* Properties of the detector built without its template
\* (checked under SpecDetector)
\* ======================================================================

\* a detect_state call has just returned: the log has a new last entry
DetectReturned == det_log' # <<>> /\ det_log' # det_log

\* C33: a detector constructed without the run-button template exists and
\* works: every detect_state call returns the current state and leaves
\* current_state, consecutive_detections and state_entered_time unchanged.
C33_NoTemplateDetectIsNoOp ==
    [][(~has_template /\ DetectReturned) =>
          /\ det_log'[Len(det_log')].ret = current_state
          /\ det_log'[Len(det_log')].ret \in BotState
          /\ UNCHANGED <<current_state, consecutive_detections,
                         state_entered_time>>]_vars

\* without a template, the detector was forced into battle and two
\* detect_state calls then returned IN_BATTLE
C33_Witness ==
    /\ ~has_template
    /\ Len(det_log) >= 2
    /\ LastCall.ret = "IN_BATTLE"
    /\ current_state = "IN_BATTLE"
    /\ consecutive_detections = required_consecutive

\* ======================================================================
\* Properties of defeat_miscrit (checked under SpecTermination)
\* ======================================================================

\* the controller is inside a defeat_miscrit call
InDefeatCall == enc_pc \in {"defeat", "wait_end"}

\* the use_skill calls the current defeat_miscrit call has made
DefeatInvocations == enc.i - 1

\* the attack caps, the reading that ends the checked loop only, and the
\* bound of the wait for the end screen
DefeatLoopBounded ==
    /\ (InDefeatCall /\ enc.quick) => DefeatInvocations <= 7
    /\ (InDefeatCall /\ ~enc.quick) => DefeatInvocations <= 11
    /\ (InDefeatCall /\ enc.defeat_stop = "hp_zero") => ~enc.quick
    /\ (enc_pc = "wait_end") => enc.defeat_stop \in {"battle_ended", "hp_zero", "cap"}
    /\ (wt.kind = "battle_end") => wt.elapsed <= BATTLE_END_TIMEOUT

\* once the loop of defeat_miscrit has ended, the call issues no attack
NoAttackAfterLoopEnd ==
    (enc_pc = "wait_end") =>
        /\ enc'.i = enc.i
        /\ enc_acts' = enc_acts
        /\ enc_pc' \in {"wait_end", "continue"}

\* stats.defeated changes only when a defeat_miscrit call returns, by one
DefeatedCountedAtReturn ==
    /\ (enc_pc = "wait_end" /\ enc_pc' = "continue")
           => stats'.defeated = stats.defeated + 1
    /\ (stats'.defeated # stats.defeated)
           => (enc_pc = "wait_end" /\ enc_pc' = "continue")

\* C34: defeat_miscrit makes at most 7 (quick) or 11 (checked)
\* defeat-skill invocations, none after the end of battle or HP 0 is read,
\* waits a bounded time for the end screen, and stats.defeated is
\* incremented exactly once for every call, however the call ends.
C34_DefeatBoundedAndCountedPerCall ==
    /\ [](DefeatLoopBounded
           /\ (~InDefeatCall =>
                  StatsDelta.defeated = enc.defeat_returned + enc.defeat_raised))
    /\ [][NoAttackAfterLoopEnd /\ DefeatedCountedAtReturn]_vars

\* ======================================================================
\* Properties of the order of an encounter's actions
\* (checked under SpecEncounter)
\* ======================================================================

\* the place of an action in the controller's state order
ActionRank(a) ==
    IF a = "damage" THEN 1
    ELSE IF a = "capture" THEN 2
    ELSE IF a = "defeat" THEN 3
    ELSE 4

\* C35: in an encounter without an exception the actions issued follow the
\* state order: damage skills, then capture actions, then defeat skills
\* (only when no capture succeeded), then Continue; on the not-eligible and
\* unknown-measurement paths only defeat skills come before Continue.
C35_ActionsFollowStateOrder ==
    ~enc.emergency =>
        /\ \A i, j \in 1..Len(enc_acts) :
               i < j => ActionRank(enc_acts[i]) <= ActionRank(enc_acts[j])
        /\ Issued("continue") <= 1
        /\ enc.success => Issued("defeat") = 0
        /\ enc.path \in {"skip", "unknown"} =>
               Issued("damage") = 0 /\ Issued("capture") = 0

\* an encounter that went through every state: damage skills, every capture
\* attempt failed, defeat skills, Continue
C35_Witness ==
    /\ ~enc.emergency
    /\ enc_pc = "return"
    /\ enc.path = "capture"
    /\ Issued("damage") >= 2
    /\ Issued("capture") = enc_cfg.attempts
    /\ Issued("capture") >= 2
    /\ Issued("defeat") >= 2
    /\ enc_acts[Len(enc_acts)] = "continue"

\* ======================================================================
\* Properties of the start of handle_encounter
\* (checked under SpecTermination, where the call finds any page)
\* ======================================================================

\* C36: at the start of an encounter, before any skill action is issued,
\* the skill manager is on page 1 with the visible skills [1, 2, 3, 4],
\* whatever page it was on when handle_encounter was called.
C36_SkillPageResetAtStart ==
    /\ (enc_pc \in {"start", "reset"}) =>
           /\ enc_acts = <<>>
           /\ sk_call = NoSkillCall
    /\ (enc_pc = "measure") =>
           /\ sk_call = NoSkillCall
           /\ current_page = 1
           /\ visible_skills = <<1, 2, 3, 4>>
           /\ enc_acts = <<>>
           /\ stats.total_battles = enc.stats_before.total_battles + 1

\* handle_encounter was called with the skill manager on page 3 and has
\* reset it
C36_Witness ==
    /\ enc_pc = "measure"
    /\ enc.page_at_call = 3
    /\ current_page = 1
    /\ visible_skills = <<1, 2, 3, 4>>

\* ======================================================================
\* Properties of the resolver's choice among equidistant cells
\* (checked under SpecResolver)
\* ======================================================================

\* the place of x in a sequence without repetitions
PlaceIn(seq, x) == CHOOSE i \in 1..Len(seq) : seq[i] = x

\* the place of a cell in the iteration over the table: ratings from F- to
\* S+, and within a rating Common, Rare, Epic, Exotic, Legendary
CellPlace(rating, rarity) ==
    ((PlaceIn(<<"F-", "F", "F+", "D", "D+", "C", "C+", "B", "B+", "A", "A+",
                "S", "S+">>, rating) - 1) * 5)
    + PlaceIn(<<"Common", "Rare", "Epic", "Exotic", "Legendary">>, rarity)

\* the allowed cells as far from P as the cell returned
TiedWithResult ==
    {c \in RATINGS \X AllowedOfCall :
        CellDistance(c[1], c[2], Val(rs_P))
            = CellDistance(rs_out[1], rs_out[2], Val(rs_P))}

\* C37: among the allowed cells at the minimum distance the estimate is the
\* first one in table iteration order; P = 30 with every rarity allowed
\* gives (D, Rare), not (A+, Common).
C37_FirstOfEquidistantCells ==
    (rs_call = "estimate" /\ rs_out # NoMatch) =>
        /\ \A c \in TiedWithResult :
               CellPlace(rs_out[1], rs_out[2]) <= CellPlace(c[1], c[2])
        /\ (Val(rs_P) = 30 /\ AllowedOfCall = RARITIES) => rs_out = <<"D", "Rare">>

\* P = 30 with every rarity allowed: (D, Rare) and (A+, Common) are both at
\* distance 0 and the call has returned (D, Rare)
C37_Witness ==
    /\ rs_call = "estimate"
    /\ rs_P = Some(30)
    /\ rs_allowed = DefaultRarities
    /\ rs_out = <<"D", "Rare">>
    /\ <<"A+", "Common">> \in TiedWithResult
    /\ Cardinality(TiedWithResult) >= 2

\* ======================================================================
\* Properties of the statistics (checked under SpecEncounter)
\* ======================================================================

\* C38: after any sequence of encounters captures_successful <=
\* captures_attempted, so that the capture_success_rate of get_stats lies in
\* [0, 100]; get_stats returns the counters as they are.
C38_SuccessesWithinAttempts ==
    LET g == get_stats(stats)
    IN  /\ stats.captures_successful <= stats.captures_attempted
        /\ 0 <= g.capture_success_rate[1]
        /\ g.capture_success_rate[1] <= 100 * g.capture_success_rate[2]
        /\ \A f \in DOMAIN stats : g[f] = stats[f]

\* the counters of st balance: every encounter counted ended in exactly one
\* of a capture or a defeat, and every skipped one was defeated
Balanced(st) ==
    /\ st.total_battles = st.captures_successful + st.defeated
    /\ st.skipped <= st.defeated

\* C39: when no exception occurs, after every encounter handled through
\* check_and_handle_battle total_battles = battle_count =
\* captures_successful + defeated and skipped <= defeated: the encounter
\* added one battle and exactly one of a capture or a defeat.
C39_CountersBalance ==
    /\ (enc_pc \in {"idle", "return"}) => stats.total_battles = battle_count
    /\ (enc_pc = "return" /\ ~enc.emergency) =>
           /\ StatsDelta.total_battles = 1
           /\ StatsDelta.captures_successful + StatsDelta.defeated = 1
           /\ StatsDelta.captures_successful \in {0, 1}
           /\ StatsDelta.skipped \in {0, 1}
           /\ StatsDelta.skipped <= StatsDelta.defeated
           /\ Balanced(enc.stats_before) => Balanced(stats)

\* a not-eligible Miscrit was skipped and defeated, with no exception
C39_Witness ==
    /\ enc_pc = "return"
    /\ ~enc.emergency
    /\ enc.path = "skip"
    /\ battle_count = 1
    /\ stats.total_battles = 1
    /\ stats.skipped = 1
    /\ stats.defeated = 1
    /\ stats.captures_successful = 0

\* ======================================================================
\* Properties of the SEARCH branch of _loop (checked under SpecLoop)
\* ======================================================================

\* C40: in SEARCH mode the battle readiness is checked only on a spot-check
\* tick on which the spot was not found; a tick that clicks the spot checks
\* nothing else and leaves the loop in SEARCH mode, so the loop cannot reach
\* BATTLE mode while every spot check finds the spot.
C40_NoBattleCheckOnClickTick ==
    (lp_last.mode_before = "SEARCH") =>
        /\ lp_last.battle_checked => (lp_last.spot_checked /\ ~lp_last.clicked)
        /\ lp_last.clicked =>
               /\ lp_last.spot_checked
               /\ ~lp_last.battle_checked
               /\ ~lp_last.ready
               /\ lp_last.mode_after = "SEARCH"
        /\ lp_last.mode_after = "BATTLE" =>
               (lp_last.spot_checked /\ ~lp_last.clicked /\ lp_last.battle_checked)

\* a tick clicked the spot on a frame showing the run button, with a battle
\* check long overdue, and the loop stayed in SEARCH mode
C40_Witness ==
    /\ lp_last.mode_before = "SEARCH"
    /\ lp_last.clicked
    /\ lp_last.frame_run
    /\ ~lp_last.battle_checked
    /\ current_mode = "SEARCH"
    /\ now - last_battle_check_time >= 2 * battle_check_interval_search

====
